---- MODULE Spec2Model ----
(***************************************************************************)
(* Model of the update calculator of airgapped-rpm-repo:                   *)
(*   src/src/update_calculator/rpm_utils.py   version model and comparator *)
(*   src/src/update_calculator/calculator.py  update matching and caching  *)
(*                                                                         *)
(* A Python str is a sequence of one-character strings, so that splitting, *)
(* formatting and parsing are computed character by character.             *)
(***************************************************************************)
EXTENDS Integers, Sequences, FiniteSets, TLC

VARIABLES
    pc,         \* which operation has been applied to the drawn inputs
    v1, v2, v3, \* version strings handed to _compare_version_strings
    strCmp,     \* results of _compare_version_strings on v1, v2, v3
    evrA, evrB, evrC, \* dicts handed to compare_versions / format_evr
    evrCmp,     \* results of compare_versions on evrA, evrB, evrC
    rpm,        \* arguments of an RPMVersion construction
    built,      \* the RPMVersion constructed from them
    text,       \* the text handed to parse_nevra
    parsed,     \* what parse_nevra returned
    manifests,  \* manifests_dir/processed/<host>/latest/manifest.json
    mirror,     \* mirror_dir/<profile>/<arch>/<channel>/.package_cache.json
    repo_cache, \* UpdateCalculator._repo_cache
    nextId,     \* identity of the next mapping object that is allocated
    loads,      \* the load_repo_packages calls made so far, oldest first
    result,     \* what the last compute_updates_for_host call returned
    processed,  \* the listing of manifests_dir/processed
    batch,      \* the generator compute_all_updates returned, and its yields
    threads,    \* where each thread stands inside its load_repo_packages call
    rpmA, rpmB, rpmC, \* RPMVersion instances handed to the ordering operators
    order,      \* what the operators and the evr property gave on them
    results,    \* the UpdateResult list handed to generate_summary
    summary     \* the summary it returned, and the list as it is afterwards

vars == <<pc, v1, v2, v3, strCmp, evrA, evrB, evrC, evrCmp, rpm, built, text, parsed,
          manifests, mirror, repo_cache, nextId, loads, result, processed, batch,
          threads, rpmA, rpmB, rpmC, order, results, summary>>

strVars == <<v1, v2, v3, strCmp>>
evrVars == <<evrA, evrB, evrC, evrCmp>>
nevraVars == <<rpm, built, text, parsed>>
calcVars == <<manifests, mirror, repo_cache, nextId, loads, result, processed, batch,
              threads>>
orderVars == <<rpmA, rpmB, rpmC, order>>
summaryVars == <<results, summary>>

(***************************************************************************)
(* Characters                                                              *)
(***************************************************************************)
DigitChars == <<"0", "1", "2", "3", "4", "5", "6", "7", "8", "9">>

LowerChars == <<"a", "b", "c", "d", "e", "f", "g", "h", "i", "j", "k", "l", "m",
                "n", "o", "p", "q", "r", "s", "t", "u", "v", "w", "x", "y", "z">>

Range(f) == {f[i] : i \in DOMAIN f}

IndexOf(seq, c) == CHOOSE i \in DOMAIN seq : seq[i] = c

\* str.isdigit() of one ASCII character
CharIsDigit(c) == c \in Range(DigitChars)

\* str.isalpha() of one ASCII character
CharIsAlpha(c) == c \in Range(LowerChars)

\* ord(c) for the characters a numeric or alphabetic segment can hold
Ord(c) ==
    IF CharIsDigit(c) THEN 47 + IndexOf(DigitChars, c)
    ELSE 96 + IndexOf(LowerChars, c)

\* s.isdigit(): non-empty and all digits
IsDigitStr(s) == Len(s) > 0 /\ \A i \in 1..Len(s) : CharIsDigit(s[i])

\* s.isalpha(): non-empty and all letters
IsAlphaStr(s) == Len(s) > 0 /\ \A i \in 1..Len(s) : CharIsAlpha(s[i])

\* int(s) for a string of ASCII digits, most significant digit first
RECURSIVE IntOfDigits(_)
IntOfDigits(s) ==
    IF Len(s) = 0 THEN 0
    ELSE 10 * IntOfDigits(SubSeq(s, 1, Len(s) - 1))
         + (IndexOf(DigitChars, s[Len(s)]) - 1)

\* Python's s1 < s2 on str: the first differing code point decides, a proper
\* prefix is smaller
RECURSIVE StrLess(_, _)
StrLess(s1, s2) ==
    IF Len(s2) = 0 THEN FALSE
    ELSE IF Len(s1) = 0 THEN TRUE
    ELSE IF Ord(Head(s1)) # Ord(Head(s2)) THEN Ord(Head(s1)) < Ord(Head(s2))
    ELSE StrLess(Tail(s1), Tail(s2))

(***************************************************************************)
(* rpm_utils._split_version_string                                         *)
(***************************************************************************)
\* one iteration of `for char in version`; st = [segments, current,
\* current_is_digit] with current_is_digit in {"None", "True", "False"}
SplitStep(st, char) ==
    IF CharIsDigit(char) THEN
        IF st.current_is_digit = "False" /\ st.current # <<>>
        THEN [segments |-> Append(st.segments, st.current),
              current |-> <<char>>, current_is_digit |-> "True"]
        ELSE [segments |-> st.segments,
              current |-> Append(st.current, char), current_is_digit |-> "True"]
    ELSE IF CharIsAlpha(char) THEN
        IF st.current_is_digit = "True" /\ st.current # <<>>
        THEN [segments |-> Append(st.segments, st.current),
              current |-> <<char>>, current_is_digit |-> "False"]
        ELSE [segments |-> st.segments,
              current |-> Append(st.current, char), current_is_digit |-> "False"]
    ELSE
        [segments |-> IF st.current # <<>>
                      THEN Append(st.segments, st.current) ELSE st.segments,
         current |-> <<>>, current_is_digit |-> "None"]

RECURSIVE SplitLoop(_, _, _)
SplitLoop(version, i, st) ==
    IF i > Len(version) THEN st
    ELSE SplitLoop(version, i + 1, SplitStep(st, version[i]))

_split_version_string(version) ==
    LET st == SplitLoop(version, 1,
                        [segments |-> <<>>, current |-> <<>>,
                         current_is_digit |-> "None"])
    IN  IF st.current # <<>> THEN Append(st.segments, st.current)
        ELSE st.segments

(***************************************************************************)
(* rpm_utils._compare_version_strings                                      *)
(***************************************************************************)
Min(a, b) == IF a < b THEN a ELSE b

\* a variant in which an alphabetic segment outranks a numeric one
CompareSegmentsAlphaGreater(s1, s2) ==
    IF IsDigitStr(s1) /\ IsDigitStr(s2) THEN
        IF IntOfDigits(s1) < IntOfDigits(s2) THEN -1
        ELSE IF IntOfDigits(s1) > IntOfDigits(s2) THEN 1 ELSE 0
    ELSE IF IsAlphaStr(s1) /\ IsAlphaStr(s2) THEN
        IF StrLess(s1, s2) THEN -1 ELSE IF StrLess(s2, s1) THEN 1 ELSE 0
    ELSE IF IsDigitStr(s1) THEN -1
    ELSE 1

\* a variant whose mixed branch returns 1 whichever side is numeric
CompareSegmentsMixedAlwaysGreater(s1, s2) ==
    IF IsDigitStr(s1) /\ IsDigitStr(s2) THEN
        IF IntOfDigits(s1) < IntOfDigits(s2) THEN -1
        ELSE IF IntOfDigits(s1) > IntOfDigits(s2) THEN 1 ELSE 0
    ELSE IF IsAlphaStr(s1) /\ IsAlphaStr(s2) THEN
        IF StrLess(s1, s2) THEN -1 ELSE IF StrLess(s2, s1) THEN 1 ELSE 0
    ELSE 1

\* the body of `for s1, s2 in zip(segments1, segments2)`: the value returned
\* from inside the loop, or 0 when this pair falls through to the next one
CompareSegments(s1, s2) ==
    IF IsDigitStr(s1) /\ IsDigitStr(s2) THEN
        IF IntOfDigits(s1) < IntOfDigits(s2) THEN -1
        ELSE IF IntOfDigits(s1) > IntOfDigits(s2) THEN 1 ELSE 0
    ELSE IF IsAlphaStr(s1) /\ IsAlphaStr(s2) THEN
        IF StrLess(s1, s2) THEN -1 ELSE IF StrLess(s2, s1) THEN 1 ELSE 0
    ELSE IF IsDigitStr(s1) THEN 1
    ELSE -1

RECURSIVE CompareLoop(_, _, _)
CompareLoop(segments1, segments2, i) ==
    IF i > Min(Len(segments1), Len(segments2)) THEN
        IF Len(segments1) < Len(segments2) THEN -1
        ELSE IF Len(segments1) > Len(segments2) THEN 1
        ELSE 0
    ELSE LET c == CompareSegments(segments1[i], segments2[i])
         IN  IF c # 0 THEN c ELSE CompareLoop(segments1, segments2, i + 1)

_compare_version_strings(s1, s2) ==
    CompareLoop(_split_version_string(s1), _split_version_string(s2), 1)

(***************************************************************************)
(* Epochs, dicts and results                                               *)
(***************************************************************************)
\* A value that is a Python int or a Python str (a manifest's or a cache's
\* epoch may be either): isStr says which, the other field is unused.
IntVal(n) == [isStr |-> FALSE, int |-> n, str |-> <<>>]
StrVal(s) == [isStr |-> TRUE, int |-> 0, str |-> s]

\* dict.get(key, default)
Get(d, key, default) == IF key \in DOMAIN d THEN d[key] ELSE default

\* what a call produced: a value, or an exception leaving the function
Returned(x) == [raised |-> FALSE, value |-> x]
Raised == [raised |-> TRUE, value |-> 0]
RaisedText == [raised |-> TRUE, value |-> <<>>]

\* str(n) for a non-negative int
RECURSIVE StrOfInt(_)
StrOfInt(n) ==
    IF n < 10 THEN <<DigitChars[n + 1]>>
    ELSE Append(StrOfInt(n \div 10), DigitChars[(n % 10) + 1])

\* the epoch texts that mean 0
EpochSentinels == {<<"(", "n", "o", "n", "e", ")">>, <<>>, <<"0">>}

\* int(s) on a str: the epoch texts drawn here are digits, digits after a
\* minus sign, a sentinel or a word, and int() raises ValueError on text that
\* is no number
IntOfStr(s) ==
    IF IsDigitStr(s) THEN Returned(IntOfDigits(s))
    ELSE IF Len(s) > 1 /\ Head(s) = "-" /\ IsDigitStr(Tail(s))
    THEN Returned(0 - IntOfDigits(Tail(s)))
    ELSE Raised

\* a variant that forgets the "(none)" sentinel
CompareEpochNoneForgotten(e) ==
    IF e.isStr THEN
        IF e.str \in {<<>>, <<"0">>} THEN Returned(0) ELSE IntOfStr(e.str)
    ELSE Returned(e.int)

\* compare_versions: `if isinstance(i_epoch, str): i_epoch = 0 if i_epoch in
\* ("(none)", "", "0") else int(i_epoch)`
CompareEpoch(e) ==
    IF e.isStr THEN
        IF e.str \in EpochSentinels THEN Returned(0) ELSE IntOfStr(e.str)
    ELSE Returned(e.int)

\* format_evr: the same normalisation of its epoch argument
FormatEpoch(e) ==
    IF e.isStr THEN
        IF e.str \in EpochSentinels THEN Returned(0) ELSE IntOfStr(e.str)
    ELSE Returned(e.int)

\* a variant of __post_init__ that forgets the "" sentinel
PostInitEpochEmptyForgotten(e) ==
    IF e.isStr THEN
        IF e.str \in {<<"(", "n", "o", "n", "e", ")">>, <<"0">>} THEN Returned(0)
        ELSE IntOfStr(e.str)
    ELSE Returned(e.int)

\* RPMVersion.__post_init__: the same normalisation of self.epoch
PostInitEpoch(e) ==
    IF e.isStr THEN
        IF e.str \in EpochSentinels THEN Returned(0) ELSE IntOfStr(e.str)
    ELSE Returned(e.int)

(***************************************************************************)
(* rpm_utils.compare_versions                                              *)
(***************************************************************************)
\* a variant that looks at the version before the epoch
CompareVersionsVersionFirst(installed, available) ==
    LET i_epoch == CompareEpoch(Get(installed, "epoch", IntVal(0)))
        a_epoch == CompareEpoch(Get(available, "epoch", IntVal(0)))
        version_cmp == _compare_version_strings(
                           Get(installed, "version", <<"0">>),
                           Get(available, "version", <<"0">>))
    IN  IF i_epoch.raised \/ a_epoch.raised THEN Raised
        ELSE IF version_cmp # 0 THEN Returned(version_cmp)
        ELSE IF i_epoch.value < a_epoch.value THEN Returned(-1)
        ELSE IF i_epoch.value > a_epoch.value THEN Returned(1)
        ELSE Returned(_compare_version_strings(
                          Get(installed, "release", <<"0">>),
                          Get(available, "release", <<"0">>)))

compare_versions(installed, available) ==
    LET i_epoch == CompareEpoch(Get(installed, "epoch", IntVal(0)))
        a_epoch == CompareEpoch(Get(available, "epoch", IntVal(0)))
        version_cmp == _compare_version_strings(
                           Get(installed, "version", <<"0">>),
                           Get(available, "version", <<"0">>))
    IN  IF i_epoch.raised \/ a_epoch.raised THEN Raised
        ELSE IF i_epoch.value < a_epoch.value THEN Returned(-1)
        ELSE IF i_epoch.value > a_epoch.value THEN Returned(1)
        ELSE IF version_cmp # 0 THEN Returned(version_cmp)
        ELSE Returned(_compare_version_strings(
                          Get(installed, "release", <<"0">>),
                          Get(available, "release", <<"0">>)))

\* rpm_utils.is_update_available; the caller sees the exception, if any
is_update_available(installed, available) ==
    LET c == compare_versions(installed, available)
    IN  IF c.raised THEN [raised |-> TRUE, value |-> FALSE]
        ELSE Returned(c.value < 0)

(***************************************************************************)
(* rpm_utils.format_evr                                                    *)
(***************************************************************************)
\* a variant that writes the epoch whatever it is
FormatEvrAlwaysEpoch(epoch, version, release) ==
    LET e == FormatEpoch(epoch)
    IN  IF e.raised THEN RaisedText
        ELSE Returned(StrOfInt(e.value) \o <<":">> \o version \o <<"-">> \o release)

format_evr(epoch, version, release) ==
    LET e == FormatEpoch(epoch)
    IN  IF e.raised THEN RaisedText
        ELSE IF e.value > 0
        THEN Returned(StrOfInt(e.value) \o <<":">> \o version \o <<"-">> \o release)
        ELSE Returned(version \o <<"-">> \o release)

(***************************************************************************)
(* rpm_utils.RPMVersion                                                    *)
(***************************************************************************)
\* RPMVersion(name, epoch, version, release, arch): the dataclass fields
\* after __post_init__ (epoch an int), or the ValueError of int(epoch)
NoVersion == [name |-> <<>>, epoch |-> 0, version |-> <<>>, release |-> <<>>,
              arch |-> <<>>]

RPMVersion(name, epoch, version, release, arch) ==
    LET e == PostInitEpoch(epoch)
    IN  IF e.raised THEN [raised |-> TRUE, value |-> NoVersion]
        ELSE Returned([name |-> name, epoch |-> e.value, version |-> version,
                       release |-> release, arch |-> arch])

\* RPMVersion.nevra: f"{name}-{epoch}:{version}-{release}.{arch}"
nevra(x) ==
    x.name \o <<"-">> \o StrOfInt(x.epoch) \o <<":">> \o x.version
        \o <<"-">> \o x.release \o <<".">> \o x.arch

\* RPMVersion.nvra: f"{name}-{version}-{release}.{arch}"
nvra(x) ==
    x.name \o <<"-">> \o x.version \o <<"-">> \o x.release \o <<".">> \o x.arch

\* RPMVersion.__eq__
RpmEq(x, y) ==
    /\ x.name = y.name
    /\ x.arch = y.arch
    /\ x.epoch = y.epoch
    /\ x.version = y.version
    /\ x.release = y.release

(***************************************************************************)
(* rpm_utils.parse_nevra                                                   *)
(***************************************************************************)
\* the character classes of the two patterns: \d, [^-], [^.]
InClass(c, class) ==
    CASE class = "digit" -> CharIsDigit(c)
      [] class = "not hyphen" -> c # "-"
      [] class = "not dot" -> c # "."

\* a greedy `class+` from position i: the position of the last character of
\* the run (i - 1 when the run is empty)
RECURSIVE ScanEnd(_, _, _)
ScanEnd(s, i, class) ==
    IF i <= Len(s) /\ InClass(s[i], class) THEN ScanEnd(s, i + 1, class)
    ELSE i - 1

At(s, i) == IF i >= 1 /\ i <= Len(s) THEN s[i] ELSE "end"

NoGroups == [ok |-> FALSE, name |-> <<>>, epoch |-> <<>>, version |-> <<>>,
             release |-> <<>>, arch |-> <<>>]

\* `([^-]+)-([^.]+)\.(.+)$` from position v: each class run must be followed
\* by its delimiter, and a run cut short is followed by a character of its own
\* class, so only the whole run can match
VersionReleaseArch(s, n, e, v) ==
    LET vEnd == ScanEnd(s, v, "not hyphen")
        rEnd == ScanEnd(s, vEnd + 2, "not dot")
    IN  IF /\ vEnd >= v
           /\ At(s, vEnd + 1) = "-"
           /\ rEnd >= vEnd + 2
           /\ At(s, rEnd + 1) = "."
           /\ rEnd + 2 <= Len(s)
        THEN [ok |-> TRUE, name |-> SubSeq(s, 1, n), epoch |-> e,
              version |-> SubSeq(s, v, vEnd),
              release |-> SubSeq(s, vEnd + 2, rEnd),
              arch |-> SubSeq(s, rEnd + 2, Len(s))]
        ELSE NoGroups

\* the rest of pattern_with_epoch once (.+) holds the first n characters
TailWithEpoch(s, n) ==
    LET eEnd == ScanEnd(s, n + 2, "digit")
    IN  IF At(s, n + 1) = "-" /\ eEnd >= n + 2 /\ At(s, eEnd + 1) = ":"
        THEN VersionReleaseArch(s, n, SubSeq(s, n + 2, eEnd), eEnd + 2)
        ELSE NoGroups

\* the rest of pattern_without_epoch once (.+) holds the first n characters
TailWithoutEpoch(s, n) ==
    IF At(s, n + 1) = "-" THEN VersionReleaseArch(s, n, <<>>, n + 2)
    ELSE NoGroups

\* the greedy (.+): the longest prefix is tried first, then shorter ones
RECURSIVE MatchWithEpoch(_, _)
MatchWithEpoch(s, n) ==
    IF n < 1 THEN NoGroups
    ELSE IF TailWithEpoch(s, n).ok THEN TailWithEpoch(s, n)
    ELSE MatchWithEpoch(s, n - 1)

RECURSIVE MatchWithoutEpoch(_, _)
MatchWithoutEpoch(s, n) ==
    IF n < 1 THEN NoGroups
    ELSE IF TailWithoutEpoch(s, n).ok THEN TailWithoutEpoch(s, n)
    ELSE MatchWithoutEpoch(s, n - 1)

\* a variant that tries the pattern without epoch first
ParseNevraWithoutEpochFirst(nevra_string) ==
    LET m2 == MatchWithoutEpoch(nevra_string, Len(nevra_string))
        m1 == MatchWithEpoch(nevra_string, Len(nevra_string))
    IN  IF m2.ok THEN
            [raised |-> FALSE, matched |-> TRUE,
             value |-> RPMVersion(m2.name, IntVal(0), m2.version, m2.release,
                                  m2.arch).value]
        ELSE IF m1.ok /\ ~IntOfStr(m1.epoch).raised THEN
            [raised |-> FALSE, matched |-> TRUE,
             value |-> RPMVersion(m1.name, IntVal(IntOfStr(m1.epoch).value),
                                  m1.version, m1.release, m1.arch).value]
        ELSE [raised |-> FALSE, matched |-> FALSE, value |-> NoVersion]

\* parse_nevra: the RPMVersion (matched), None (not matched), or the
\* ValueError of int(epoch)
parse_nevra(nevra_string) ==
    LET m1 == MatchWithEpoch(nevra_string, Len(nevra_string))
        m2 == MatchWithoutEpoch(nevra_string, Len(nevra_string))
    IN  IF m1.ok THEN
            IF IntOfStr(m1.epoch).raised
            THEN [raised |-> TRUE, matched |-> FALSE, value |-> NoVersion]
            ELSE [raised |-> FALSE, matched |-> TRUE,
                  value |-> RPMVersion(m1.name, IntVal(IntOfStr(m1.epoch).value),
                                       m1.version, m1.release, m1.arch).value]
        ELSE IF m2.ok THEN
            [raised |-> FALSE, matched |-> TRUE,
             value |-> RPMVersion(m2.name, IntVal(0), m2.version, m2.release,
                                  m2.arch).value]
        ELSE [raised |-> FALSE, matched |-> FALSE, value |-> NoVersion]

(***************************************************************************)
(* calculator.UpdateCalculator                                             *)
(*                                                                         *)
(* Host ids are opaque names.  A manifest or cache file is the dict its    *)
(* JSON holds; a missing file is no entry of manifests / mirror.  A        *)
(* mapping object is [id, pkgs]: two objects are the same object (Python's *)
(* `is`) when their ids are equal.  computed_at is a clock reading and is  *)
(* left out of UpdateResult.                                               *)
(***************************************************************************)
Unknown == <<"u", "n", "k", "n", "o", "w", "n">>
Rhel == <<"r", "h", "e", "l">>
X86_64 == <<"x", "8", "6", "_", "6", "4">>
Baseos == <<"b", "a", "s", "e", "o", "s">>
Appstream == <<"a", "p", "p", "s", "t", "r", "e", "a", "m">>

\* Python truthiness of a dict, a list or a str: empty is false
Truthy(x) == DOMAIN x # {}

\* os_version.split(".")[0]
RECURSIVE BeforeFirstDot(_)
BeforeFirstDot(s) ==
    IF s = <<>> \/ Head(s) = "." THEN <<>>
    ELSE <<Head(s)>> \o BeforeFirstDot(Tail(s))

\* a variant whose fallback names the profile after the os
GetProfileNamedAfterOs(os_id, os_version) ==
    IF os_id \in {Rhel, <<"c", "e", "n", "t", "o", "s">>,
                  <<"r", "o", "c", "k", "y">>,
                  <<"a", "l", "m", "a", "l", "i", "n", "u", "x">>}
    THEN Rhel \o BeforeFirstDot(os_version)
    ELSE os_id \o BeforeFirstDot(os_version)

\* UpdateCalculator.get_profile_for_os: both branches return the same text
get_profile_for_os(os_id, os_version) ==
    LET major_version == BeforeFirstDot(os_version)
    IN  IF os_id \in {Rhel, <<"c", "e", "n", "t", "o", "s">>,
                      <<"r", "o", "c", "k", "y">>,
                      <<"a", "l", "m", "a", "l", "i", "n", "u", "x">>}
        THEN Rhel \o major_version
        ELSE Rhel \o major_version

\* cache_key = f"{profile}/{arch}/{channel}"
CacheKey(profile, arch, channel) ==
    profile \o <<"/">> \o arch \o <<"/">> \o channel

\* a variant that memoizes nothing
LoadRepoPackagesNoMemo(cache, files, nid, profile, arch, channel) ==
    IF <<profile, arch, channel>> \in DOMAIN files
    THEN [obj |-> [id |-> nid, pkgs |-> files[<<profile, arch, channel>>]],
          cache |-> cache, nid |-> nid + 1, warned |-> FALSE, raised |-> FALSE]
    ELSE [obj |-> [id |-> nid, pkgs |-> <<>>], cache |-> cache, nid |-> nid + 1,
          warned |-> TRUE, raised |-> FALSE]

\* a variant that reads the cache file whenever there is one and memoizes
\* what it read, over what was memoized before
LoadRepoPackagesRefreshes(cache, files, nid, profile, arch, channel) ==
    IF <<profile, arch, channel>> \in DOMAIN files
    THEN [obj |-> [id |-> nid, pkgs |-> files[<<profile, arch, channel>>]],
          cache |-> [k \in DOMAIN cache \cup {CacheKey(profile, arch, channel)} |->
                        IF k = CacheKey(profile, arch, channel)
                        THEN [id |-> nid, pkgs |-> files[<<profile, arch, channel>>]]
                        ELSE cache[k]],
          nid |-> nid + 1, warned |-> FALSE, raised |-> FALSE]
    ELSE IF CacheKey(profile, arch, channel) \in DOMAIN cache
    THEN [obj |-> cache[CacheKey(profile, arch, channel)], cache |-> cache,
          nid |-> nid, warned |-> FALSE, raised |-> FALSE]
    ELSE [obj |-> [id |-> nid, pkgs |-> <<>>], cache |-> cache, nid |-> nid + 1,
          warned |-> TRUE, raised |-> FALSE]

\* a variant that opens the cache file without looking whether it exists
LoadRepoPackagesOpensUnchecked(cache, files, nid, profile, arch, channel) ==
    IF CacheKey(profile, arch, channel) \in DOMAIN cache
    THEN [obj |-> cache[CacheKey(profile, arch, channel)], cache |-> cache,
          nid |-> nid, warned |-> FALSE, raised |-> FALSE]
    ELSE IF <<profile, arch, channel>> \in DOMAIN files
    THEN [obj |-> [id |-> nid, pkgs |-> files[<<profile, arch, channel>>]],
          cache |-> [k \in DOMAIN cache \cup {CacheKey(profile, arch, channel)} |->
                        IF k = CacheKey(profile, arch, channel)
                        THEN [id |-> nid, pkgs |-> files[<<profile, arch, channel>>]]
                        ELSE cache[k]],
          nid |-> nid + 1, warned |-> FALSE, raised |-> FALSE]
    ELSE [obj |-> [id |-> nid, pkgs |-> <<>>], cache |-> cache, nid |-> nid,
          warned |-> FALSE, raised |-> TRUE]

\* UpdateCalculator.load_repo_packages on memo `cache`, mirror `files` and
\* allocation counter `nid`: the mapping object returned, the memo and the
\* counter afterwards, whether logger.warning was called, and whether the
\* call raised (no path of it does: the file is opened only if it exists).
\* json.load and the literal {} each make a new object.
LoadRepoPackages(cache, files, nid, profile, arch, channel) ==
    LET cache_key == CacheKey(profile, arch, channel)
    IN  IF cache_key \in DOMAIN cache
        THEN [obj |-> cache[cache_key], cache |-> cache, nid |-> nid,
              warned |-> FALSE, raised |-> FALSE]
        ELSE IF <<profile, arch, channel>> \in DOMAIN files
        THEN LET packages == [id |-> nid,
                              pkgs |-> files[<<profile, arch, channel>>]]
             IN  [obj |-> packages,
                  cache |-> [k \in DOMAIN cache \cup {cache_key} |->
                                IF k = cache_key THEN packages ELSE cache[k]],
                  nid |-> nid + 1, warned |-> FALSE, raised |-> FALSE]
        ELSE [obj |-> [id |-> nid, pkgs |-> <<>>], cache |-> cache,
              nid |-> nid + 1, warned |-> TRUE, raised |-> FALSE]

\* str(x) of an epoch that is an int or already a str
StrOf(e) == IF e.isStr THEN e.str ELSE StrOfInt(e.int)

\* the dict built for installed_info / available_info: missing fields are "0"
InfoOf(d) ==
    [epoch |-> Get(d, "epoch", StrVal(<<"0">>)),
     version |-> Get(d, "version", <<"0">>),
     release |-> Get(d, "release", <<"0">>)]

\* PackageUpdate(name, arch, channel, ...)
PackageUpdate(name, arch, channel, installed_info, available_info) ==
    [name |-> name, arch |-> arch, channel |-> channel,
     installed_epoch |-> StrOf(installed_info.epoch),
     installed_version |-> installed_info.version,
     installed_release |-> installed_info.release,
     available_epoch |-> StrOf(available_info.epoch),
     available_version |-> available_info.version,
     available_release |-> available_info.release]

\* PackageUpdate.installed_evr and PackageUpdate.available_evr
installed_evr(u) ==
    format_evr(StrVal(u.installed_epoch), u.installed_version, u.installed_release)

available_evr(u) ==
    format_evr(StrVal(u.available_epoch), u.available_version, u.available_release)

\* the element of a one-element set: TheOne({F(x) : x \in {e}}) is F(e) with
\* e evaluated once
TheOne(S) == CHOOSE x \in S : TRUE

\* a variant that reports every build that differs, older ones too
PackageStepAnyDifference(pkg, repo_packages, channel, updates) ==
    LET name == Get(pkg, "name", <<>>)
        arch == Get(pkg, "arch", <<>>)
        available == Get(repo_packages, name \o <<".">> \o arch, <<>>)
    IN  IF ~Truthy(name) \/ ~Truthy(arch) THEN Returned(updates)
        ELSE IF ~Truthy(available) THEN Returned(updates)
        ELSE TheOne({
            IF c.raised THEN [raised |-> TRUE, value |-> updates]
            ELSE IF c.value # 0
            THEN Returned(Append(updates,
                                 PackageUpdate(name, arch, channel, InfoOf(pkg),
                                               InfoOf(available))))
            ELSE Returned(updates)
            : c \in {compare_versions(InfoOf(pkg), InfoOf(available))} })

\* a variant that takes a cache entry without fields for a match
PackageStepEmptyEntryMatches(pkg, repo_packages, channel, updates) ==
    LET name == Get(pkg, "name", <<>>)
        arch == Get(pkg, "arch", <<>>)
        key == name \o <<".">> \o arch
        available == Get(repo_packages, key, <<>>)
    IN  IF ~Truthy(name) \/ ~Truthy(arch) THEN Returned(updates)
        ELSE IF key \notin DOMAIN repo_packages THEN Returned(updates)
        ELSE TheOne({
            IF newer.raised THEN [raised |-> TRUE, value |-> updates]
            ELSE IF newer.value
            THEN Returned(Append(updates,
                                 PackageUpdate(name, arch, channel, InfoOf(pkg),
                                               InfoOf(available))))
            ELSE Returned(updates)
            : newer \in {is_update_available(InfoOf(pkg), InfoOf(available))} })

\* the body of `for pkg in installed_packages` for one entry: the updates
\* with what this entry appends, or the exception of the comparison
PackageStep(pkg, repo_packages, channel, updates) ==
    LET name == Get(pkg, "name", <<>>)
        arch == Get(pkg, "arch", <<>>)
        key == name \o <<".">> \o arch
        available == Get(repo_packages, key, <<>>)
        installed_info == InfoOf(pkg)
        available_info == InfoOf(available)
    IN  IF ~Truthy(name) \/ ~Truthy(arch) THEN Returned(updates)
        ELSE IF ~Truthy(available) THEN Returned(updates)
        ELSE TheOne({
            IF newer.raised THEN [raised |-> TRUE, value |-> updates]
            ELSE IF newer.value
            THEN Returned(Append(updates,
                                 PackageUpdate(name, arch, channel,
                                               installed_info, available_info)))
            ELSE Returned(updates)
            : newer \in {is_update_available(installed_info, available_info)} })

\* `for pkg in installed_packages` from entry i on; an exception ends it
RECURSIVE PackageLoop(_, _, _, _, _)
PackageLoop(installed_packages, i, repo_packages, channel, found) ==
    IF i > Len(installed_packages) \/ found.raised THEN found
    ELSE TheOne({
        PackageLoop(installed_packages, i + 1, repo_packages, channel, next)
        : next \in {PackageStep(installed_packages[i], repo_packages, channel,
                                found.value)} })

\* the body of `for channel in ["baseos", "appstream"]` for one channel; st
\* carries the memo, the allocation counter, the updates, and a log of the
\* loads made: the key, the object returned, whether the mirror held a
\* .package_cache.json for the key when the call was made, and whether the
\* call logged its warning
ChannelStep(channel, files, profile, installed_packages, st) ==
    TheOne({
        TheOne({
            [cache |-> loaded.cache,
             nid |-> loaded.nid,
             loaded |-> Append(st.loaded,
                               [key |-> CacheKey(profile, X86_64, channel),
                                obj |-> loaded.obj,
                                backed |-> <<profile, X86_64, channel>>
                                               \in DOMAIN files,
                                warned |-> loaded.warned,
                                raised |-> loaded.raised]),
             updates |-> found.value,
             raised |-> found.raised]
            : found \in {IF Truthy(loaded.obj.pkgs)
                         THEN PackageLoop(installed_packages, 1, loaded.obj.pkgs,
                                          channel, Returned(st.updates))
                         ELSE Returned(st.updates)} })
        : loaded \in {LoadRepoPackages(st.cache, files, st.nid, profile, X86_64,
                                       channel)} })

\* a variant that leaves the loop at the first channel without packages
RECURSIVE ChannelLoopStopsAtEmpty(_, _, _, _, _, _)
ChannelLoopStopsAtEmpty(channels, i, files, profile, installed_packages, st) ==
    IF i > Len(channels) \/ st.raised THEN st
    ELSE TheOne({
        IF ~Truthy(next.loaded[Len(next.loaded)].obj.pkgs) THEN next
        ELSE ChannelLoopStopsAtEmpty(channels, i + 1, files, profile,
                                     installed_packages, next)
        : next \in {ChannelStep(channels[i], files, profile, installed_packages,
                                st)} })

\* `for channel in ["baseos", "appstream"]` from channel i on
RECURSIVE ChannelLoop(_, _, _, _, _, _)
ChannelLoop(channels, i, files, profile, installed_packages, st) ==
    IF i > Len(channels) \/ st.raised THEN st
    ELSE TheOne({
        ChannelLoop(channels, i + 1, files, profile, installed_packages, next)
        : next \in {ChannelStep(channels[i], files, profile, installed_packages,
                                st)} })

UpdateResult(host_id, profile, os_id, os_version, updates, errors) ==
    [raised |-> FALSE, host_id |-> host_id, profile |-> profile,
     os_id |-> os_id, os_version |-> os_version, updates |-> updates,
     errors |-> errors]

\* what a caller holds when the call raised instead of returning
RaisedResult(host_id) ==
    [raised |-> TRUE, host_id |-> host_id, profile |-> <<>>, os_id |-> <<>>,
     os_version |-> <<>>, updates |-> <<>>, errors |-> <<>>]

\* a variant without the `if not manifest` return: a missing manifest is
\* read as an empty one
ComputeUpdatesForHostNoManifestCheck(cache, docs, files, nid, host_id) ==
    LET manifest == Get(docs, host_id, <<>>)
        os_release == Get(manifest, "os_release", <<>>)
        os_id == Get(os_release, "id", Unknown)
        os_version == Get(os_release, "version", Unknown)
        profile == get_profile_for_os(os_id, os_version)
        installed_packages == Get(manifest, "packages", <<>>)
        start == [cache |-> cache, nid |-> nid, loaded |-> <<>>,
                  updates |-> <<>>, raised |-> FALSE]
    IN  IF ~Truthy(installed_packages)
        THEN [result |-> UpdateResult(host_id, profile, os_id, os_version, <<>>,
                             << <<"No packages found in manifest">> >>),
              cache |-> cache, nid |-> nid, loaded |-> <<>>]
        ELSE TheOne({
            [result |-> IF end.raised THEN RaisedResult(host_id)
                        ELSE UpdateResult(host_id, profile, os_id, os_version,
                                          end.updates, <<>>),
             cache |-> end.cache, nid |-> end.nid, loaded |-> end.loaded]
            : end \in {ChannelLoop(<<Baseos, Appstream>>, 1, files, profile,
                                   installed_packages, start)} })

\* a variant without the `if not installed_packages` return: the channels
\* are loaded for an empty package list too
ComputeUpdatesForHostNoEarlyReturn(cache, docs, files, nid, host_id) ==
    LET manifest == Get(docs, host_id, <<>>)
        os_release == Get(manifest, "os_release", <<>>)
        os_id == Get(os_release, "id", Unknown)
        os_version == Get(os_release, "version", Unknown)
        profile == get_profile_for_os(os_id, os_version)
        installed_packages == Get(manifest, "packages", <<>>)
        start == [cache |-> cache, nid |-> nid, loaded |-> <<>>,
                  updates |-> <<>>, raised |-> FALSE]
    IN  IF ~Truthy(manifest)
        THEN [result |-> UpdateResult(host_id, Unknown, Unknown, Unknown, <<>>,
                             << <<"Manifest not found for host: ", host_id>> >>),
              cache |-> cache, nid |-> nid, loaded |-> <<>>]
        ELSE TheOne({
            [result |-> IF end.raised THEN RaisedResult(host_id)
                        ELSE UpdateResult(host_id, profile, os_id, os_version,
                                          end.updates,
                                          IF Truthy(installed_packages) THEN <<>>
                                          ELSE << <<"No packages found in manifest">> >>),
             cache |-> end.cache, nid |-> end.nid, loaded |-> end.loaded]
            : end \in {ChannelLoop(<<Baseos, Appstream>>, 1, files, profile,
                                   installed_packages, start)} })

\* a variant that goes through the channels the other way round
ComputeUpdatesForHostAppstreamFirst(cache, docs, files, nid, host_id) ==
    LET manifest == Get(docs, host_id, <<>>)
        os_release == Get(manifest, "os_release", <<>>)
        os_id == Get(os_release, "id", Unknown)
        os_version == Get(os_release, "version", Unknown)
        profile == get_profile_for_os(os_id, os_version)
        installed_packages == Get(manifest, "packages", <<>>)
        start == [cache |-> cache, nid |-> nid, loaded |-> <<>>,
                  updates |-> <<>>, raised |-> FALSE]
    IN  IF ~Truthy(manifest)
        THEN [result |-> UpdateResult(host_id, Unknown, Unknown, Unknown, <<>>,
                             << <<"Manifest not found for host: ", host_id>> >>),
              cache |-> cache, nid |-> nid, loaded |-> <<>>]
        ELSE IF ~Truthy(installed_packages)
        THEN [result |-> UpdateResult(host_id, profile, os_id, os_version, <<>>,
                             << <<"No packages found in manifest">> >>),
              cache |-> cache, nid |-> nid, loaded |-> <<>>]
        ELSE TheOne({
            [result |-> IF end.raised THEN RaisedResult(host_id)
                        ELSE UpdateResult(host_id, profile, os_id, os_version,
                                          end.updates, <<>>),
             cache |-> end.cache, nid |-> end.nid, loaded |-> end.loaded]
            : end \in {ChannelLoop(<<Appstream, Baseos>>, 1, files, profile,
                                   installed_packages, start)} })

\* a variant that starts every call on an empty memo
ComputeUpdatesForHostForgetsMemo(cache, docs, files, nid, host_id) ==
    LET manifest == Get(docs, host_id, <<>>)
        os_release == Get(manifest, "os_release", <<>>)
        os_id == Get(os_release, "id", Unknown)
        os_version == Get(os_release, "version", Unknown)
        profile == get_profile_for_os(os_id, os_version)
        installed_packages == Get(manifest, "packages", <<>>)
        start == [cache |-> <<>>, nid |-> nid, loaded |-> <<>>,
                  updates |-> <<>>, raised |-> FALSE]
    IN  IF ~Truthy(manifest)
        THEN [result |-> UpdateResult(host_id, Unknown, Unknown, Unknown, <<>>,
                             << <<"Manifest not found for host: ", host_id>> >>),
              cache |-> cache, nid |-> nid, loaded |-> <<>>]
        ELSE IF ~Truthy(installed_packages)
        THEN [result |-> UpdateResult(host_id, profile, os_id, os_version, <<>>,
                             << <<"No packages found in manifest">> >>),
              cache |-> cache, nid |-> nid, loaded |-> <<>>]
        ELSE TheOne({
            [result |-> IF end.raised THEN RaisedResult(host_id)
                        ELSE UpdateResult(host_id, profile, os_id, os_version,
                                          end.updates, <<>>),
             cache |-> end.cache, nid |-> end.nid, loaded |-> end.loaded]
            : end \in {ChannelLoop(<<Baseos, Appstream>>, 1, files, profile,
                                   installed_packages, start)} })

\* UpdateCalculator.compute_updates_for_host on memo `cache`, manifests
\* `docs`, mirror `files` and allocation counter `nid`: the UpdateResult (or
\* the exception), and the memo, counter and loads made
ComputeUpdatesForHost(cache, docs, files, nid, host_id) ==
    LET manifest == Get(docs, host_id, <<>>)
        os_release == Get(manifest, "os_release", <<>>)
        os_id == Get(os_release, "id", Unknown)
        os_version == Get(os_release, "version", Unknown)
        profile == get_profile_for_os(os_id, os_version)
        installed_packages == Get(manifest, "packages", <<>>)
        start == [cache |-> cache, nid |-> nid, loaded |-> <<>>,
                  updates |-> <<>>, raised |-> FALSE]
    IN  IF ~Truthy(manifest)
        THEN [result |-> UpdateResult(host_id, Unknown, Unknown, Unknown, <<>>,
                             << <<"Manifest not found for host: ", host_id>> >>),
              cache |-> cache, nid |-> nid, loaded |-> <<>>]
        ELSE IF ~Truthy(installed_packages)
        THEN [result |-> UpdateResult(host_id, profile, os_id, os_version, <<>>,
                             << <<"No packages found in manifest">> >>),
              cache |-> cache, nid |-> nid, loaded |-> <<>>]
        ELSE TheOne({
            [result |-> IF end.raised THEN RaisedResult(host_id)
                        ELSE UpdateResult(host_id, profile, os_id, os_version,
                                          end.updates, <<>>),
             cache |-> end.cache, nid |-> end.nid, loaded |-> end.loaded]
            : end \in {ChannelLoop(<<Baseos, Appstream>>, 1, files, profile,
                                   installed_packages, start)} })

(***************************************************************************)
(* Inputs of the comparator                                                *)
(***************************************************************************)
MaxPairLen == 5
MaxTripleLen == 4
MaxEpoch == 1

\* the characters version strings are drawn from: digits, letters, a separator
StrAlphabet == {"0", "1", "a", "b", "."}

StringsOfLen(n) == [1..n -> StrAlphabet]

\* strings of the specification's examples and of the tests
StrExamples ==
    { <<"1", ".", "0">>, <<"1", ".", "0", ".", "1">>, <<"1", ".", "a">>,
      <<"1", ".", "b">>, <<"1", ".", "1">>, <<"9">>, <<"1", "0">>,
      <<"6", ".", "e", "l", "9">>, <<"9", ".", "e", "l", "9">>,
      <<"1", ".", "2", "a", "3">> }

None6 == <<"(", "n", "o", "n", "e", ")">>

EpochPool ==
    {IntVal(n) : n \in 0..MaxEpoch}
    \cup {StrVal(StrOfInt(n)) : n \in 0..MaxEpoch}
    \cup {StrVal(None6), StrVal(<<>>), StrVal(<<"x">>)}

VersionPool == { <<"0">>, <<"1">>, <<"1", ".", "0">> }

ReleasePool == { <<"1">>, <<"2", ".", "e", "l", "9">> }

\* dicts with epoch, version and release keys, any of which may be missing
EvrDicts ==
    [epoch : EpochPool, version : VersionPool, release : ReleasePool]
    \cup [version : VersionPool, release : ReleasePool]
    \cup [epoch : EpochPool, release : ReleasePool]
    \cup [epoch : EpochPool, version : VersionPool]
    \cup {<<>>}

EvrThird ==
    [epoch : {IntVal(0), StrVal(<<"1">>)},
     version : {<<"0">>, <<"1", ".", "0">>}, release : {<<"1">>}]

NoStrCmp == [ab |-> 0, ba |-> 0, bc |-> 0, ac |-> 0, aa |-> 0]

NoText == Returned(<<>>)

NoEvrCmp ==
    [ab |-> Returned(0), ba |-> Returned(0), bc |-> Returned(0),
     ac |-> Returned(0), aa |-> Returned(0),
     formatted |-> FALSE, evr |-> NoText,
     constructed |-> FALSE, epoch |-> Returned(0),
     installed_evr |-> NoText, available_evr |-> NoText]

NoRpm == [name |-> <<>>, epoch |-> IntVal(0), version |-> <<>>,
          release |-> <<>>, arch |-> <<>>]

NoBuilt == [raised |-> FALSE, value |-> NoVersion]

NoParse == [raised |-> FALSE, matched |-> FALSE, value |-> NoVersion]

\* manifests_dir/processed does not exist
NoListing == [exists |-> FALSE, dirs |-> {}, files |-> {}]

\* compute_all_updates has not been called
NoBatch == [state |-> "none", todo |-> <<>>, yielded |-> <<>>]

NoOrder == [applied |-> FALSE]

NoSummary == [made |-> FALSE]

\* the variables of the other specifications, at rest
StrIdle == v1 = <<>> /\ v2 = <<>> /\ v3 = <<>> /\ strCmp = NoStrCmp
EvrIdle == evrA = <<>> /\ evrB = <<>> /\ evrC = <<>> /\ evrCmp = NoEvrCmp
NevraIdle == rpm = NoRpm /\ built = NoBuilt /\ text = <<>> /\ parsed = NoParse
CalcIdle ==
    /\ manifests = <<>>
    /\ mirror = <<>>
    /\ repo_cache = <<>>
    /\ nextId = 0
    /\ loads = <<>>
    /\ result = RaisedResult("")
    /\ processed = NoListing
    /\ batch = NoBatch
    /\ threads = <<>>
OrderIdle ==
    /\ rpmA = NoVersion /\ rpmB = NoVersion /\ rpmC = NoVersion
    /\ order = NoOrder
SummaryIdle == results = <<>> /\ summary = NoSummary

InitStr ==
    /\ pc = "strings"
    /\ \/ \E n \in 0..MaxPairLen : \E j \in 0..n :
              /\ v1 \in StringsOfLen(j)
              /\ v2 \in StringsOfLen(n - j)
              /\ v3 = <<>>
       \/ \E n \in 0..MaxTripleLen : \E j \in 0..n : \E k \in 0..(n - j) :
              /\ v1 \in StringsOfLen(j)
              /\ v2 \in StringsOfLen(k)
              /\ v3 \in StringsOfLen(n - j - k)
       \/ /\ v1 \in StrExamples
          /\ v2 \in StrExamples
          /\ v3 \in StrExamples
    /\ strCmp = NoStrCmp
    /\ EvrIdle /\ NevraIdle /\ CalcIdle /\ OrderIdle /\ SummaryIdle

InitEvr ==
    /\ pc = "evrs"
    /\ evrA \in EvrDicts
    /\ evrB \in EvrDicts
    /\ evrC \in EvrThird
    /\ evrCmp = NoEvrCmp
    /\ StrIdle /\ NevraIdle /\ CalcIdle /\ OrderIdle /\ SummaryIdle

\* _compare_version_strings applied to the drawn strings, each way round
CompareStrings ==
    /\ pc = "strings"
    /\ pc' = "strings compared"
    /\ strCmp' = [ab |-> _compare_version_strings(v1, v2),
                  ba |-> _compare_version_strings(v2, v1),
                  bc |-> _compare_version_strings(v2, v3),
                  ac |-> _compare_version_strings(v1, v3),
                  aa |-> _compare_version_strings(v1, v1)]
    /\ UNCHANGED <<v1, v2, v3, evrVars, nevraVars, calcVars, orderVars, summaryVars>>

HasAll(d) == {"epoch", "version", "release"} \subseteq DOMAIN d

\* compare_versions applied to the drawn dicts, each way round; format_evr
\* applied to evrA's fields when it has all three; RPMVersion.__post_init__
\* applied to evrA's epoch when it has one; the evr properties read of the
\* PackageUpdate that compute_updates_for_host makes of evrA as the installed
\* entry and evrB as the available one
CompareEvrs ==
    /\ pc = "evrs"
    /\ pc' = "evrs compared"
    /\ evrCmp' = [ab |-> compare_versions(evrA, evrB),
                  ba |-> compare_versions(evrB, evrA),
                  bc |-> compare_versions(evrB, evrC),
                  ac |-> compare_versions(evrA, evrC),
                  aa |-> compare_versions(evrA, evrA),
                  formatted |-> HasAll(evrA),
                  evr |-> IF HasAll(evrA)
                          THEN format_evr(evrA.epoch, evrA.version, evrA.release)
                          ELSE NoText,
                  constructed |-> "epoch" \in DOMAIN evrA,
                  epoch |-> IF "epoch" \in DOMAIN evrA
                            THEN PostInitEpoch(evrA.epoch) ELSE Returned(0),
                  installed_evr |->
                      installed_evr(PackageUpdate(<<"b", "a", "s", "h">>, X86_64,
                                                  Baseos, InfoOf(evrA), InfoOf(evrB))),
                  available_evr |->
                      available_evr(PackageUpdate(<<"b", "a", "s", "h">>, X86_64,
                                                  Baseos, InfoOf(evrA), InfoOf(evrB)))]
    /\ UNCHANGED <<evrA, evrB, evrC, strVars, nevraVars, calcVars, orderVars, summaryVars>>

InitCmp == InitStr \/ InitEvr

NextCmp == CompareStrings \/ CompareEvrs

SpecCmp == InitCmp /\ [][NextCmp]_vars

(***************************************************************************)
(* The segment ordering, stated without the loops of the code              *)
(***************************************************************************)
Sign(n) == IF n < 0 THEN -1 ELSE IF n > 0 THEN 1 ELSE 0

MinOf(S) == CHOOSE x \in S : \A y \in S : x <= y

RefClass(c) ==
    IF CharIsDigit(c) THEN "digit" ELSE IF CharIsAlpha(c) THEN "alpha" ELSE "separator"

\* the maximal runs of digits or of letters of s, as <<first, last>> positions
RefRuns(s) ==
    { r \in (1..Len(s)) \X (1..Len(s)) :
        /\ r[1] <= r[2]
        /\ RefClass(s[r[1]]) # "separator"
        /\ \A i \in r[1]..r[2] : RefClass(s[i]) = RefClass(s[r[1]])
        /\ r[1] = 1 \/ RefClass(s[r[1] - 1]) # RefClass(s[r[1]])
        /\ r[2] = Len(s) \/ RefClass(s[r[2] + 1]) # RefClass(s[r[1]]) }

\* the runs in the order they occur
RefSegments(s) ==
    LET runs == RefRuns(s)
    IN  [k \in 1..Cardinality(runs) |->
            LET r == CHOOSE r \in runs :
                         Cardinality({q \in runs : q[1] < r[1]}) = k - 1
            IN  SubSeq(s, r[1], r[2])]

\* the integer a run of digits writes, read from the left
RECURSIVE RefNumber(_, _)
RefNumber(seg, acc) ==
    IF seg = <<>> THEN acc
    ELSE RefNumber(Tail(seg), 10 * acc + (Ord(Head(seg)) - 48))

\* code-point order of two alphabetic runs
RefAlphaOrder(x, y) ==
    LET differ == {i \in 1..Min(Len(x), Len(y)) : x[i] # y[i]}
    IN  IF differ = {} THEN Sign(Len(x) - Len(y))
        ELSE Sign(Ord(x[MinOf(differ)]) - Ord(y[MinOf(differ)]))

RefSegmentOrder(x, y) ==
    LET xNum == CharIsDigit(x[1])
        yNum == CharIsDigit(y[1])
    IN  IF xNum /\ yNum THEN Sign(RefNumber(x, 0) - RefNumber(y, 0))
        ELSE IF ~xNum /\ ~yNum THEN RefAlphaOrder(x, y)
        ELSE IF xNum THEN 1 ELSE -1

RefCompare(a, b) ==
    LET sa == RefSegments(a)
        sb == RefSegments(b)
        differ == {k \in 1..Min(Len(sa), Len(sb)) :
                      RefSegmentOrder(sa[k], sb[k]) # 0}
    IN  IF differ = {} THEN Sign(Len(sa) - Len(sb))
        ELSE RefSegmentOrder(sa[MinOf(differ)], sb[MinOf(differ)])

\* C3: for all strings a and b, _compare_version_strings(a, b) is the result
\* of segmenting both into maximal runs of digits or letters (everything else
\* a discarded separator), deciding by the first pair of segments that differ
\* (numbers by value, letters by code point, a number above letters) and,
\* when no pair differs, ranking the longer sequence greater.
CompareMatchesReference ==
    pc = "strings compared" =>
        /\ strCmp.ab = RefCompare(v1, v2)
        /\ strCmp.ba = RefCompare(v2, v1)
        /\ strCmp.bc = RefCompare(v2, v3)
        /\ strCmp.ac = RefCompare(v1, v3)

\* "1.a" against "1.1": the second segments are of different types
CompareMixedReached ==
    /\ pc = "strings compared"
    /\ v1 = <<"1", ".", "a">>
    /\ v2 = <<"1", ".", "1">>
    /\ strCmp.ab = -1
    /\ strCmp.ba = 1

\* the epoch of a dict as an integer: a missing epoch and the sentinels are 0
RefEpoch(d) ==
    IF "epoch" \notin DOMAIN d THEN 0
    ELSE IF ~d.epoch.isStr THEN d.epoch.int
    ELSE IF d.epoch.str \in EpochSentinels THEN 0
    ELSE RefNumber(d.epoch.str, 0)

\* the epoch of d is a number: absent, an int, a sentinel or a text of digits
NumericEpoch(d) ==
    "epoch" \in DOMAIN d =>
        (d.epoch.isStr => (d.epoch.str \in EpochSentinels \/ IsDigitStr(d.epoch.str)))

VersionOf(d) == Get(d, "version", <<"0">>)
ReleaseOf(d) == Get(d, "release", <<"0">>)

\* C4: compare_versions decides by epoch first (as integers), then by
\* version, then by release, stopping at the first field that differs; a
\* strictly greater available epoch gives -1 whatever version and release are
\* (the epochs being numbers).
EpochThenVersionThenRelease ==
    (pc = "evrs compared" /\ NumericEpoch(evrA) /\ NumericEpoch(evrB)) =>
        LET ie == RefEpoch(evrA)
            ae == RefEpoch(evrB)
            vc == _compare_version_strings(VersionOf(evrA), VersionOf(evrB))
            rc == _compare_version_strings(ReleaseOf(evrA), ReleaseOf(evrB))
        IN  /\ ~evrCmp.ab.raised
            /\ ie < ae => evrCmp.ab.value = -1
            /\ ie > ae => evrCmp.ab.value = 1
            /\ (ie = ae /\ vc # 0) => evrCmp.ab.value = vc
            /\ (ie = ae /\ vc = 0) => evrCmp.ab.value = rc

\* installed 0:1-..., available 1:0-...: the older version wins by its epoch
EpochDominanceReached ==
    /\ pc = "evrs compared"
    /\ RefEpoch(evrA) = 0
    /\ RefEpoch(evrB) = 1
    /\ _compare_version_strings(VersionOf(evrA), VersionOf(evrB)) = 1
    /\ evrCmp.ab = Returned(-1)

\* C5: compare_versions and _compare_version_strings are order-consistent:
\* every result is -1, 0 or 1, comparing a value with itself gives 0,
\* swapping the arguments negates the result, and a <= b with b <= c gives
\* a <= c (for compare_versions: on arguments whose epochs are numbers).
OrderConsistent ==
    /\ pc = "strings compared" =>
        /\ {strCmp.ab, strCmp.ba, strCmp.bc, strCmp.ac} \subseteq {-1, 0, 1}
        /\ strCmp.aa = 0
        /\ strCmp.ab = -strCmp.ba
        /\ (strCmp.ab <= 0 /\ strCmp.bc <= 0) => strCmp.ac <= 0
    /\ (/\ pc = "evrs compared"
        /\ NumericEpoch(evrA) /\ NumericEpoch(evrB) /\ NumericEpoch(evrC)) =>
        /\ ~evrCmp.ab.raised /\ ~evrCmp.bc.raised /\ ~evrCmp.ac.raised
        /\ {evrCmp.ab.value, evrCmp.ba.value, evrCmp.bc.value, evrCmp.ac.value}
               \subseteq {-1, 0, 1}
        /\ ~evrCmp.aa.raised /\ evrCmp.aa.value = 0
        /\ ~evrCmp.ba.raised /\ evrCmp.ab.value = -evrCmp.ba.value
        /\ (evrCmp.ab.value <= 0 /\ evrCmp.bc.value <= 0) => evrCmp.ac.value <= 0

\* three strings in strictly increasing order, a number above a word
StrictChainReached ==
    /\ pc = "strings compared"
    /\ IsAlphaStr(v1) /\ IsDigitStr(v2) /\ Len(_split_version_string(v3)) = 2
    /\ strCmp.ab = -1
    /\ strCmp.bc = -1
    /\ strCmp.ac = -1

\* the dict with an epoch sentinel "(none)" or "" replaced by "0"
ZeroForSentinel(d) ==
    IF "epoch" \in DOMAIN d /\ d.epoch \in {StrVal(None6), StrVal(<<>>)}
    THEN [d EXCEPT !.epoch = StrVal(<<"0">>)]
    ELSE d

\* C6: an epoch "(none)" or "" behaves like "0": compare_versions gives the
\* same result with the sentinel replaced by "0" on either side, format_evr
\* the same text, and RPMVersion construction the epoch 0.
SentinelIsZero ==
    pc = "evrs compared" =>
        /\ evrCmp.ab = compare_versions(ZeroForSentinel(evrA), ZeroForSentinel(evrB))
        /\ (evrCmp.formatted /\ evrA # ZeroForSentinel(evrA)) =>
               evrCmp.evr = format_evr(StrVal(<<"0">>), evrA.version, evrA.release)
        /\ (evrCmp.constructed /\ evrA # ZeroForSentinel(evrA)) =>
               /\ evrCmp.epoch = Returned(0)
               /\ evrCmp.epoch = PostInitEpoch(StrVal(<<"0">>))

\* "(none)" against "": both sentinels meet, and the release decides
SentinelsComparedReached ==
    /\ pc = "evrs compared"
    /\ HasAll(evrA) /\ HasAll(evrB)
    /\ evrA.epoch = StrVal(None6)
    /\ evrB.epoch = StrVal(<<>>)
    /\ evrCmp.ab = Returned(-1)
    /\ evrCmp.formatted /\ evrCmp.constructed

(***************************************************************************)
(* Inputs of the NEVRA parser                                              *)
(***************************************************************************)
MaxSeps == 5
MaxShortLen == 5

NamePool == { <<"b", "a", "s", "h">>,
              <<"p", "y", "t", "h", "o", "n", "3", "-", "r", "p", "m">> }

NevraVersionPool == { <<"5", ".", "1", ".", "8">>, <<"3">> }

\* releases N.elN, as the mirrored repositories carry them
DistTagReleases == { <<"2", "4", ".", "e", "l", "9">>, <<"6", ".", "e", "l", "9">> }

NevraReleasePool == DistTagReleases \cup { <<"6">> }

ArchPool == { <<"x", "8", "6", "_", "6", "4">>, <<"n", "o", "a", "r", "c", "h">> }

RpmArgs ==
    [name : NamePool, epoch : EpochPool, version : NevraVersionPool,
     release : NevraReleasePool, arch : ArchPool]

\* the text of one-character fields f[1], f[2], ... with the separators
\* s[1], s[2], ... between them
Interleave(f, sep) ==
    [i \in 1..(Len(f) + Len(sep)) |->
        IF i % 2 = 1 THEN f[(i + 1) \div 2] ELSE sep[i \div 2]]

InitRpm ==
    /\ pc = "rpm"
    /\ rpm \in RpmArgs
    /\ built = NoBuilt /\ text = <<>> /\ parsed = NoParse
    /\ StrIdle /\ EvrIdle /\ CalcIdle /\ OrderIdle /\ SummaryIdle

\* every text of up to MaxShortLen characters, and the texts of up to MaxSeps
\* separators between one-character fields
InitText ==
    /\ pc = "text"
    /\ \/ \E n \in 0..MaxShortLen : text \in [1..n -> {"a", "1", "-", ":", "."}]
       \/ \E k \in 0..MaxSeps :
              \E f \in [1..(k + 1) -> {"a", "1"}], sep \in [1..k -> {"-", ":", "."}] :
                  text = Interleave(f, sep)
    /\ rpm = NoRpm /\ built = NoBuilt /\ parsed = NoParse
    /\ StrIdle /\ EvrIdle /\ CalcIdle /\ OrderIdle /\ SummaryIdle

\* x = RPMVersion(...); parse_nevra(x.nevra)
RoundTripNevra ==
    /\ pc = "rpm"
    /\ built' = RPMVersion(rpm.name, rpm.epoch, rpm.version, rpm.release, rpm.arch)
    /\ IF built'.raised
       THEN /\ pc' = "construction raised"
            /\ UNCHANGED <<text, parsed>>
       ELSE /\ pc' = "nevra parsed"
            /\ text' = nevra(built'.value)
            /\ parsed' = parse_nevra(text')
    /\ UNCHANGED <<rpm, strVars, evrVars, calcVars, orderVars, summaryVars>>

\* x = RPMVersion(...); parse_nevra(x.nvra)
RoundTripNvra ==
    /\ pc = "rpm"
    /\ built' = RPMVersion(rpm.name, rpm.epoch, rpm.version, rpm.release, rpm.arch)
    /\ IF built'.raised
       THEN /\ pc' = "construction raised"
            /\ UNCHANGED <<text, parsed>>
       ELSE /\ pc' = "nvra parsed"
            /\ text' = nvra(built'.value)
            /\ parsed' = parse_nevra(text')
    /\ UNCHANGED <<rpm, strVars, evrVars, calcVars, orderVars, summaryVars>>

\* parse_nevra(text)
ParseText ==
    /\ pc = "text"
    /\ pc' = "text parsed"
    /\ parsed' = parse_nevra(text)
    /\ UNCHANGED <<rpm, built, text, strVars, evrVars, calcVars, orderVars, summaryVars>>

InitNevra == InitRpm \/ InitText

NextNevra == RoundTripNevra \/ RoundTripNvra \/ ParseText

SpecNevra == InitNevra /\ [][NextNevra]_vars

\* C7: for any constructed RPMVersion x, parse_nevra(x.nevra) returns an
\* RPMVersion equal to x.
NevraRoundTrip ==
    pc = "nevra parsed" =>
        /\ ~parsed.raised
        /\ parsed.matched
        /\ RpmEq(parsed.value, built.value)

\* C8: for a NEVRA string whose release carries a dotted dist tag
\* (name-[epoch:]version-N.elN.arch), parse_nevra returns the release with its
\* dist tag and, as arch, only the final dot-separated component.
DistTagKept ==
    (pc \in {"nevra parsed", "nvra parsed"} /\ built.value.release \in DistTagReleases) =>
        /\ parsed.matched
        /\ parsed.value.release = built.value.release
        /\ parsed.value.arch = built.value.arch

\* the ways to cut t as name-epoch:version-release.arch: the positions
\* <<n, e, v, r>> of the last character of name, epoch, version and release
CutsWithEpoch(t) ==
    UNION { UNION { UNION { { <<n, e, v, r>> :
        r \in { r \in (v + 2)..(Len(t) - 2) :
                  /\ \A i \in (v + 2)..r : t[i] # "."
                  /\ t[r + 1] = "." } } :
        v \in { v \in (e + 2)..(Len(t) - 1) :
                  /\ \A i \in (e + 2)..v : t[i] # "-"
                  /\ t[v + 1] = "-" } } :
        e \in { e \in (n + 2)..(Len(t) - 1) :
                  /\ \A i \in (n + 2)..e : CharIsDigit(t[i])
                  /\ t[e + 1] = ":" } } :
        n \in { n \in 1..(Len(t) - 1) : t[n + 1] = "-" } }

\* the ways to cut t as name-version-release.arch: <<n, n + 1, v, r>>
CutsWithoutEpoch(t) ==
    UNION { UNION { { <<n, n + 1, v, r>> :
        r \in { r \in (v + 2)..(Len(t) - 2) :
                  /\ \A i \in (v + 2)..r : t[i] # "."
                  /\ t[r + 1] = "." } } :
        v \in { v \in (n + 2)..(Len(t) - 1) :
                  /\ \A i \in (n + 2)..v : t[i] # "-"
                  /\ t[v + 1] = "-" } } :
        n \in { n \in 1..(Len(t) - 1) : t[n + 1] = "-" } }

\* the fields a cut gives; without epoch (e = n + 1) the epoch is 0
FieldsOfCut(t, c) ==
    [name |-> SubSeq(t, 1, c[1]),
     epoch |-> RefNumber(SubSeq(t, c[1] + 2, c[2]), 0),
     version |-> SubSeq(t, c[2] + IF c[2] = c[1] + 1 THEN 1 ELSE 2, c[3]),
     release |-> SubSeq(t, c[3] + 2, c[4]),
     arch |-> SubSeq(t, c[4] + 2, Len(t))]

ParsedStates == {"nevra parsed", "nvra parsed", "text parsed"}

MaxPkgs == 2

Bash == <<"b", "a", "s", "h">>
Zsh == <<"z", "s", "h">>
BashKey == Bash \o <<".">> \o X86_64
ZshKey == Zsh \o <<".">> \o X86_64

V518 == <<"5", ".", "1", ".", "8">>
R6el9 == <<"6", ".", "e", "l", "9">>
R9el9 == <<"9", ".", "e", "l", "9">>

\* installed package entries of a manifest: older than the mirror's bash, the
\* same build with the "(none)" epoch, a zsh whose epoch is a JSON number, an
\* entry without name, one with name and arch only, one with a malformed
\* epoch, and a pre-release whose version is a word
InstalledPool ==
    { [name |-> Bash, arch |-> X86_64, epoch |-> StrVal(<<"0">>),
       version |-> V518, release |-> R6el9],
      [name |-> Bash, arch |-> X86_64, epoch |-> StrVal(None6),
       version |-> V518, release |-> R9el9],
      [name |-> Zsh, arch |-> X86_64, epoch |-> IntVal(1),
       version |-> <<"5", ".", "8">>, release |-> <<"1">>],
      [arch |-> X86_64, epoch |-> StrVal(<<"0">>), version |-> <<"1">>,
       release |-> <<"1">>],
      [name |-> Bash, arch |-> X86_64],
      [name |-> Bash, arch |-> X86_64, epoch |-> StrVal(<<"x">>),
       version |-> V518, release |-> R6el9],
      [name |-> Bash, arch |-> X86_64, epoch |-> StrVal(<<"0">>),
       version |-> <<"b", "e", "t", "a">>, release |-> <<"1">>] }

PackageLists == UNION {[1..n -> InstalledPool] : n \in 0..MaxPkgs}

\* what a cache may hold for bash.x86_64: a build, a build without epoch, a
\* build whose epoch is a JSON number, and an entry with no fields at all
BashAvailable ==
    { [epoch |-> StrVal(<<"0">>), version |-> V518, release |-> R9el9],
      [version |-> V518, release |-> R6el9],
      [epoch |-> IntVal(1), version |-> <<"1">>, release |-> <<"1">>],
      <<>> }

ZshAvailable ==
    { [epoch |-> StrVal(<<"1">>), version |-> <<"5", ".", "9">>,
       release |-> <<"1">>] }

\* the JSON objects rhel9/x86_64/baseos/.package_cache.json may hold: {},
\* a bash entry, or bash and zsh
BaseosContents ==
    {<<>>}
    \cup {BashKey :> b : b \in BashAvailable}
    \cup {(BashKey :> b) @@ (ZshKey :> z) :
             b \in {[version |-> V518, release |-> R6el9]}, z \in ZshAvailable}

\* and those of rhel9/x86_64/appstream: {}, zsh, or zsh and a bash as well
AppstreamContents ==
    {<<>>}
    \cup {ZshKey :> z : z \in ZshAvailable}
    \cup {(BashKey :> b) @@ (ZshKey :> z) :
             b \in {[epoch |-> StrVal(<<"0">>), version |-> V518,
                     release |-> R9el9]},
             z \in ZshAvailable}

Rhel9 == Rhel \o <<"9">>
Rhel8 == Rhel \o <<"8">>

\* every mirror whose files lie among `paths`, each missing or holding one of
\* `contents`
Mirrors(paths, contents) ==
    UNION {[present -> contents] : present \in SUBSET paths}

NoResult == RaisedResult("")

\* the calls on one calculator that a behaviour follows
MaxLoads == 4

\* the listing of manifests_dir/processed when it holds the manifests docs
\* and nothing else
ListingOf(docs) == [exists |-> TRUE, dirs |-> DOMAIN docs, files |-> {}]

\* a calculator just constructed: nothing memoized, nothing called
FreshCalculator ==
    /\ repo_cache = <<>>
    /\ nextId = 0
    /\ loads = <<>>
    /\ result = NoResult
    /\ batch = NoBatch
    /\ threads = <<>>

\* one host with any manifest of up to MaxPkgs packages, any rhel9 mirror
InitHost ==
    /\ pc = "calculator"
    /\ \E pkgs \in PackageLists :
           manifests = ("web1" :> [os_release |-> [id |-> Rhel,
                                                   version |-> <<"9", ".", "6">>],
                                   packages |-> pkgs])
    /\ \E baseos \in Mirrors({<<Rhel9, X86_64, Baseos>>}, BaseosContents),
          appstream \in Mirrors({<<Rhel9, X86_64, Appstream>>}, AppstreamContents) :
           mirror = baseos @@ appstream
    /\ processed = ListingOf(manifests)
    /\ FreshCalculator
    /\ StrIdle /\ EvrIdle /\ NevraIdle /\ OrderIdle /\ SummaryIdle

\* calc.compute_updates_for_host(host_id)
ComputeCall(host_id) ==
    /\ pc = "calculator"
    /\ Len(loads) + 2 <= MaxLoads
    /\ \E r \in {ComputeUpdatesForHost(repo_cache, manifests, mirror, nextId,
                                        host_id)} :
           /\ result' = r.result
           /\ repo_cache' = r.cache
           /\ nextId' = r.nid
           /\ loads' = loads \o r.loaded
    /\ UNCHANGED <<pc, threads, manifests, mirror, processed, batch, strVars, evrVars, nevraVars,
                   orderVars, summaryVars>>

\* calc.load_repo_packages(profile, arch, channel)
LoadCall(profile, arch, channel) ==
    /\ pc = "calculator"
    /\ Len(loads) + 1 <= MaxLoads
    /\ \E r \in {LoadRepoPackages(repo_cache, mirror, nextId, profile, arch,
                                   channel)} :
           /\ repo_cache' = r.cache
           /\ nextId' = r.nid
           /\ loads' = Append(loads,
                              [key |-> CacheKey(profile, arch, channel),
                               obj |-> r.obj,
                               backed |-> <<profile, arch, channel>>
                                              \in DOMAIN mirror,
                               warned |-> r.warned,
                               raised |-> r.raised])
    /\ UNCHANGED <<pc, threads, manifests, mirror, result, processed, batch, strVars, evrVars,
                   nevraVars, orderVars, summaryVars>>

\* the first call on a fresh calculator
FirstCompute ==
    /\ result = NoResult
    /\ ComputeCall("web1")

SpecHost == InitHost /\ [][FirstCompute]_vars

(***************************************************************************)
(* What compute_updates_for_host lists                                     *)
(***************************************************************************)
\* the call has returned an UpdateResult computed from a manifest with packages
HostReturned ==
    /\ result # NoResult
    /\ ~result.raised
    /\ result.host_id \in DOMAIN manifests
    /\ Truthy(Get(manifests[result.host_id], "packages", <<>>))

\* the triples an update entry carries, as compare_versions takes them
InstalledTriple(u) ==
    [epoch |-> StrVal(u.installed_epoch), version |-> u.installed_version,
     release |-> u.installed_release]

AvailableTriple(u) ==
    [epoch |-> StrVal(u.available_epoch), version |-> u.available_version,
     release |-> u.available_release]

\* C1: every PackageUpdate of a returned UpdateResult carries an available
\* triple that compare_versions puts strictly above the installed triple
\* (compare_versions(installed, available) = -1); none is listed for an equal
\* or an older build.
UpdatesAreStrictlyNewer ==
    \A i \in 1..Len(result.updates) :
        compare_versions(InstalledTriple(result.updates[i]),
                         AvailableTriple(result.updates[i])) = Returned(-1)

\* C1 witness: a result that lists an update while the manifest also holds a
\* package whose cached build is not newer
NewerListedOlderNotReached ==
    /\ HostReturned
    /\ Len(result.updates) = 1
    /\ Len(manifests[result.host_id].packages) = 2
    /\ \E i \in 1..2 :
           LET pkg == manifests[result.host_id].packages[i]
               path == <<result.profile, X86_64, Baseos>>
           IN  /\ DOMAIN pkg = {"name", "arch", "epoch", "version", "release"}
               /\ path \in DOMAIN mirror
               /\ BashKey \in DOMAIN mirror[path]
               /\ Truthy(mirror[path][BashKey])
               /\ pkg.name = Bash
               /\ CompareEpoch(pkg.epoch) = Returned(0)
               /\ compare_versions(InfoOf(pkg), InfoOf(mirror[path][BashKey]))
                      \in {Returned(0), Returned(1)}

\* the text of an epoch field, absent meaning "0"
EpochText(d) ==
    IF "epoch" \notin DOMAIN d THEN <<"0">>
    ELSE IF d.epoch.isStr THEN d.epoch.str ELSE StrOfInt(d.epoch.int)

\* the update the installed entry pkg and the cache entry `entry` call for
OwedUpdate(pkg, entry, channel) ==
    [name |-> pkg.name, arch |-> pkg.arch, channel |-> channel,
     installed_epoch |-> EpochText(pkg),
     installed_version |-> Get(pkg, "version", <<"0">>),
     installed_release |-> Get(pkg, "release", <<"0">>),
     available_epoch |-> EpochText(entry),
     available_version |-> Get(entry, "version", <<"0">>),
     available_release |-> Get(entry, "release", <<"0">>)]

\* the installed entry has a name and an arch and its key is in the channel's
\* cache; with needEntry, the key moreover maps to an entry that has fields
Matched(pkg, channel, needEntry) ==
    LET path == <<result.profile, X86_64, channel>>
    IN  /\ "name" \in DOMAIN pkg /\ pkg.name # <<>>
        /\ "arch" \in DOMAIN pkg /\ pkg.arch # <<>>
        /\ path \in DOMAIN mirror
        /\ pkg.name \o <<".">> \o pkg.arch \in DOMAIN mirror[path]
        /\ needEntry => mirror[path][pkg.name \o <<".">> \o pkg.arch] # <<>>

CachedEntry(pkg, channel) ==
    mirror[<<result.profile, X86_64, channel>>][pkg.name \o <<".">> \o pkg.arch]

\* the matched entry is strictly older than the cached build
Owed(pkg, channel, needEntry) ==
    /\ Matched(pkg, channel, needEntry)
    /\ compare_versions(InfoOf(pkg), InfoOf(CachedEntry(pkg, channel)))
           = Returned(-1)

\* the updates owed, channel by channel and, within a channel, in manifest order
OwedUpdates(needEntry) ==
    LET packages == manifests[result.host_id].packages
        n == Len(packages)
        channels == <<Baseos, Appstream>>
        slots == [k \in 1..(2 * n) |->
                     [pkg |-> packages[((k - 1) % n) + 1],
                      channel |-> channels[((k - 1) \div n) + 1]]]
        IsOwed(slot) == Owed(slot.pkg, slot.channel, needEntry)
        owed == SelectSeq(slots, IsOwed)
    IN  [k \in 1..Len(owed) |->
            OwedUpdate(owed[k].pkg, CachedEntry(owed[k].pkg, owed[k].channel),
                       owed[k].channel)]

Centos == <<"c", "e", "n", "t", "o", "s">>

\* the hosts asked about: two with manifests, one without
HostIds == {"web1", "db1", "ghost"}

Profiles == {Rhel9, Rhel8}
Channels == {Baseos, Appstream}

\* web1 runs rhel 9.6 with an old bash and a zsh, or has no manifest; db1
\* runs centos 8 with an old bash, or its manifest lists no packages, or its
\* manifest.json holds the empty object {}
FleetManifests ==
    LET old_bash == [name |-> Bash, arch |-> X86_64, epoch |-> StrVal(<<"0">>),
                     version |-> V518, release |-> R6el9]
        zsh == [name |-> Zsh, arch |-> X86_64, epoch |-> IntVal(1),
                version |-> <<"5", ".", "8">>, release |-> <<"1">>]
        web1 == [os_release |-> [id |-> Rhel, version |-> <<"9", ".", "6">>],
                 packages |-> <<old_bash, zsh>>]
        db1 == [packages \in {<<>>, <<old_bash>>} |->
                   [os_release |-> [id |-> Centos, version |-> <<"8">>],
                    packages |-> packages]]
    IN  { ("db1" :> db1[p]) : p \in DOMAIN db1 }
        \cup { ("web1" :> web1) @@ ("db1" :> db1[p]) : p \in DOMAIN db1 }
        \cup { ("web1" :> web1) @@ ("db1" :> <<>>) }

\* the mirror's cache files: each one missing, an empty object, or a listing
FleetMirrors ==
    LET bash == BashKey :> [epoch |-> StrVal(<<"0">>), version |-> V518,
                            release |-> R9el9]
        zsh == ZshKey :> [epoch |-> StrVal(<<"1">>),
                          version |-> <<"5", ".", "9">>, release |-> <<"1">>]
    IN  { f \in Mirrors({<<Rhel9, X86_64, Baseos>>, <<Rhel9, X86_64, Appstream>>,
                         <<Rhel8, X86_64, Baseos>>},
                        {<<>>, bash, zsh}) :
            /\ <<Rhel9, X86_64, Appstream>> \in DOMAIN f
                   => f[<<Rhel9, X86_64, Appstream>>] = zsh
            /\ <<Rhel9, X86_64, Baseos>> \in DOMAIN f
                   => f[<<Rhel9, X86_64, Baseos>>] # zsh
            /\ <<Rhel8, X86_64, Baseos>> \in DOMAIN f
                   => f[<<Rhel8, X86_64, Baseos>>] = bash }

Init ==
    /\ pc = "calculator"
    /\ manifests \in FleetManifests
    /\ mirror \in FleetMirrors
    /\ processed = ListingOf(manifests)
    /\ FreshCalculator
    /\ StrIdle /\ EvrIdle /\ NevraIdle /\ OrderIdle /\ SummaryIdle

Next ==
    \/ \E profile \in Profiles, channel \in Channels :
           LoadCall(profile, X86_64, channel)
    \/ \E host_id \in HostIds : ComputeCall(host_id)

Spec == Init /\ [][Next]_vars

\* the object of load j is the very object of load i
SameObject(i, j) == loads[j].obj.id = loads[i].obj.id

\* C10: of two load_repo_packages calls on one calculator with the same
\* profile, arch and channel, the later returns the very mapping object the
\* earlier returned, provided the mirror held a cache file for the triple
\* when the earlier call was made.
LoadsShareBackedObject ==
    \A i, j \in 1..Len(loads) :
        (i < j /\ loads[i].key = loads[j].key /\ loads[i].backed)
            => SameObject(i, j) /\ loads[j].obj = loads[i].obj

\* C10 as stated: the same object whether or not a cache file exists
LoadsShareObject ==
    \A i \in 1..(Len(loads) - 1) :
        loads[i].key = loads[i + 1].key => SameObject(i, i + 1)

\* C10 witness: a key backed by a cache file is loaded, other keys are loaded
\* in between, and it is loaded again
BackedLoadedAgainReached ==
    \E i, j \in 1..Len(loads) :
        /\ i + 1 < j
        /\ loads[i].key = loads[j].key
        /\ loads[i].backed
        /\ loads[i + 1].key # loads[i].key
        /\ Truthy(loads[i].obj.pkgs)

(***************************************************************************)
(* Hosts without a manifest, manifests without packages, missing caches    *)
(***************************************************************************)
UnknownText == <<"u", "n", "k", "n", "o", "w", "n">>

\* C11: compute_updates_for_host on a host with no manifest returns, without
\* raising, an UpdateResult with that host_id, with profile, os_id and
\* os_version "unknown", with exactly one error string, which names the host,
\* and with no updates; the call loads no repository cache.
NoManifestGivesUnknown ==
    [][\A host_id \in HostIds \ DOMAIN manifests :
          (result' # result /\ result'.host_id = host_id) =>
              /\ ~result'.raised
              /\ result'.profile = UnknownText
              /\ result'.os_id = UnknownText
              /\ result'.os_version = UnknownText
              /\ Len(result'.errors) = 1
              /\ result'.errors[1][Len(result'.errors[1])] = host_id
              /\ Len(result'.updates) = 0
              /\ loads' = loads
              /\ repo_cache' = repo_cache
              /\ nextId' = nextId]_vars

\* C11 witness: the result for a host without manifest, on a calculator that
\* has loaded caches before
NoManifestAfterLoadsReached ==
    /\ result # NoResult
    /\ result.host_id \notin DOMAIN manifests
    /\ Len(result.errors) = 1
    /\ Len(loads) > 1
    /\ \E i \in 1..Len(loads) : loads[i].backed

\* the last call was compute_updates_for_host on a manifest with packages
\* while the mirror lacks the cache file of a channel
CacheMissingForCall ==
    /\ result # NoResult
    /\ result.host_id \in DOMAIN manifests
    /\ Truthy(Get(manifests[result.host_id], "packages", <<>>))
    /\ \E channel \in {Baseos, Appstream} :
           <<Rhel9, X86_64, channel>> \notin DOMAIN mirror

\* every installed entry has an epoch that is a number
NumericEpochs(packages) ==
    \A i \in 1..Len(packages) : NumericEpoch(packages[i])

ListingOrders(names) ==
    {listed \in [1..Cardinality(names) -> names] :
        \A i, j \in 1..Cardinality(names) : i # j => listed[i] # listed[j]}

\* the generator body from the head of `todo` up to its next yield: entries
\* that are no directories are passed over; the first directory is computed
\* and its result yielded, unless the computation raises; without a
\* directory left the generator is exhausted
RECURSIVE ResumeAll(_, _, _, _, _, _)
ResumeAll(cache, docs, files, nid, listing, todo) ==
    IF todo = <<>>
    THEN [outcome |-> "exhausted", result |-> NoResult, cache |-> cache,
          nid |-> nid, loaded |-> <<>>, todo |-> <<>>]
    ELSE IF Head(todo) \notin listing.dirs
    THEN ResumeAll(cache, docs, files, nid, listing, Tail(todo))
    ELSE TheOne({
        [outcome |-> IF r.result.raised THEN "raised" ELSE "yielded",
         result |-> r.result, cache |-> r.cache, nid |-> r.nid,
         loaded |-> r.loaded,
         todo |-> IF r.result.raised THEN <<>> ELSE Tail(todo)]
        : r \in {ComputeUpdatesForHost(cache, docs, files, nid, Head(todo))} })

\* gen = calc.compute_all_updates(): the generator is made, its body has not
\* started
ComputeAllCall ==
    /\ pc = "calculator"
    /\ batch.state = "none"
    /\ batch' = [state |-> "created", todo |-> <<>>, yielded |-> <<>>]
    /\ UNCHANGED <<pc, threads, manifests, mirror, repo_cache, nextId, loads, result,
                   processed, strVars, evrVars, nevraVars, orderVars, summaryVars>>

\* next(gen): the first one looks for the directory and lists it
NextOfAll ==
    /\ pc = "calculator"
    /\ batch.state \in {"created", "running"}
    /\ IF batch.state = "created" /\ ~processed.exists
       THEN /\ batch' = [batch EXCEPT !.state = "exhausted"]
            /\ UNCHANGED <<repo_cache, nextId, loads, result>>
       ELSE \E listed \in IF batch.state = "created"
                         THEN ListingOrders(processed.dirs \cup processed.files)
                         ELSE {batch.todo} :
            \E r \in {ResumeAll(repo_cache, manifests, mirror, nextId, processed,
                                listed)} :
                /\ batch' = [state |-> IF r.outcome = "yielded" THEN "running"
                                       ELSE r.outcome,
                             todo |-> r.todo,
                             yielded |-> IF r.outcome = "yielded"
                                         THEN Append(batch.yielded, r.result)
                                         ELSE batch.yielded]
                /\ repo_cache' = r.cache
                /\ nextId' = r.nid
                /\ loads' = loads \o r.loaded
                /\ result' = IF r.outcome = "exhausted" THEN result ELSE r.result
    /\ UNCHANGED <<pc, threads, manifests, mirror, processed, strVars, evrVars, nevraVars,
                   orderVars, summaryVars>>

\* the fleets a batch runs over: web1 as before; db1 with an old bash whose
\* epoch is "0" or the malformed "x"; a host directory "ghost" that holds no
\* manifest; a plain file "README"; or no processed directory at all
BatchFleets ==
    LET bash(epoch) == [name |-> Bash, arch |-> X86_64, epoch |-> StrVal(epoch),
                        version |-> V518, release |-> R6el9]
        zsh == [name |-> Zsh, arch |-> X86_64, epoch |-> IntVal(1),
                version |-> <<"5", ".", "8">>, release |-> <<"1">>]
        web1 == [os_release |-> [id |-> Rhel, version |-> <<"9", ".", "6">>],
                 packages |-> <<bash(<<"0">>), zsh>>]
        db1(epoch) == [os_release |-> [id |-> Rhel, version |-> <<"9">>],
                       packages |-> <<bash(epoch)>>]
    IN  {[docs |-> <<>>, listing |-> NoListing]}
        \cup {[docs |-> ("web1" :> web1) @@ ("db1" :> db1(epoch)),
               listing |-> [exists |-> TRUE,
                            dirs |-> {"web1", "db1"} \cup ghosts,
                            files |-> strays]] :
                epoch \in {<<"0">>, <<"x">>},
                ghosts \in SUBSET {"ghost"},
                strays \in SUBSET {"README"}}
        \cup {[docs |-> <<>>,
               listing |-> [exists |-> TRUE, dirs |-> {}, files |-> strays]] :
                strays \in SUBSET {"README"}}

InitBatch ==
    /\ pc = "calculator"
    /\ \E fleet \in BatchFleets :
           /\ manifests = fleet.docs
           /\ processed = fleet.listing
    /\ mirror \in FleetMirrors
    /\ FreshCalculator
    /\ StrIdle /\ EvrIdle /\ NevraIdle /\ OrderIdle /\ SummaryIdle

NextBatch == ComputeAllCall \/ NextOfAll

SpecBatch == InitBatch /\ [][NextBatch]_vars

\* C13: compute_all_updates yields exactly one UpdateResult per host
\* directory under the processed-manifests directory (none when the directory
\* is absent, entries that are no directories skipped), and bad data of a
\* host or channel never raises: it surfaces in that host's errors and the
\* results of the remaining hosts are still produced.
BatchYieldsEveryHost ==
    /\ batch.state # "raised"
    /\ batch.state = "exhausted" =>
           /\ Len(batch.yielded) = Cardinality(processed.dirs)
           /\ {batch.yielded[i].host_id : i \in 1..Len(batch.yielded)}
                  = processed.dirs
           /\ \A i \in 1..Len(batch.yielded) :
                  batch.yielded[i].host_id \notin DOMAIN manifests
                      => Len(batch.yielded[i].errors) = 1

(***************************************************************************)
(* rpm_utils.RPMVersion: ordering and the evr property                     *)
(***************************************************************************)
\* a rich-comparison method returns a bool or NotImplemented
NotImplemented == [notimpl |-> TRUE, value |-> FALSE]

Implemented(b) == [notimpl |-> FALSE, value |-> b]

\* a variant of __lt__ that refuses only on a different name
RpmLtAcrossArch(x, y) ==
    IF x.name # y.name THEN NotImplemented
    ELSE IF x.epoch # y.epoch THEN Implemented(x.epoch < y.epoch)
    ELSE IF _compare_version_strings(x.version, y.version) # 0
    THEN Implemented(_compare_version_strings(x.version, y.version) < 0)
    ELSE Implemented(_compare_version_strings(x.release, y.release) < 0)

\* RPMVersion.__lt__ (both operands are RPMVersions)
RpmLt(x, y) ==
    IF x.name # y.name \/ x.arch # y.arch THEN NotImplemented
    ELSE IF x.epoch # y.epoch THEN Implemented(x.epoch < y.epoch)
    ELSE IF _compare_version_strings(x.version, y.version) # 0
    THEN Implemented(_compare_version_strings(x.version, y.version) < 0)
    ELSE Implemented(_compare_version_strings(x.release, y.release) < 0)

\* a variant of __gt__ that asks the other operand's __lt__
RpmGtAsReversedLt(x, y) == RpmLt(y, x)

\* the methods functools.total_ordering derives from __lt__ and __eq__:
\* __gt__ is `not (x < y) and x != y`, __le__ is `x < y or x == y`, __ge__
\* is `not (x < y)`, each NotImplemented when __lt__ is
RpmGt(x, y) ==
    IF RpmLt(x, y).notimpl THEN NotImplemented
    ELSE Implemented(~RpmLt(x, y).value /\ ~RpmEq(x, y))

RpmLe(x, y) ==
    IF RpmLt(x, y).notimpl THEN NotImplemented
    ELSE Implemented(RpmLt(x, y).value \/ RpmEq(x, y))

RpmGe(x, y) ==
    IF RpmLt(x, y).notimpl THEN NotImplemented
    ELSE Implemented(~RpmLt(x, y).value)

\* an ordering operator between two objects: the left operand's method, then
\* the right operand's reflected method, then TypeError
RichCompare(direct, reflected) ==
    IF ~direct.notimpl THEN Returned(direct.value)
    ELSE IF ~reflected.notimpl THEN Returned(reflected.value)
    ELSE [raised |-> TRUE, value |-> FALSE]

\* a < b, a > b, a <= b, a >= b
Less(a, b) == RichCompare(RpmLt(a, b), RpmGt(b, a))
Greater(a, b) == RichCompare(RpmGt(a, b), RpmLt(b, a))
LessEq(a, b) == RichCompare(RpmLe(a, b), RpmGe(b, a))
GreaterEq(a, b) == RichCompare(RpmGe(a, b), RpmLe(b, a))

\* a variant of evr that leaves the epoch 0 out, as format_evr does
EvrWithoutZeroEpoch(x) == format_evr(IntVal(x.epoch), x.version, x.release).value

\* RPMVersion.evr: f"{epoch}:{version}-{release}"
evr(x) ==
    StrOfInt(x.epoch) \o <<":">> \o x.version \o <<"-">> \o x.release

\* versions that compare equal without being the same text, and others
OrderVersionPool == { <<"1", ".", "0">>, <<"1", ".", "0", "0">>, <<"1", ".", "a">> }

OrderReleasePool == { <<"1">>, <<"2", ".", "e", "l", "9">> }

OrderRpms ==
    [name : {Bash, Zsh}, epoch : 0..MaxEpoch, version : OrderVersionPool,
     release : OrderReleasePool, arch : ArchPool]

OrderThird ==
    [name : {Bash}, epoch : 0..MaxEpoch, version : OrderVersionPool,
     release : {<<"1">>}, arch : {X86_64}]

InitOrder ==
    /\ pc = "rpms"
    /\ rpmA \in OrderRpms
    /\ rpmB \in OrderRpms
    /\ rpmC \in OrderThird
    /\ order = NoOrder
    /\ StrIdle /\ EvrIdle /\ NevraIdle /\ CalcIdle /\ SummaryIdle

\* the dict of epoch, version and release that compare_versions takes
TripleOf(x) ==
    [epoch |-> IntVal(x.epoch), version |-> x.version, release |-> x.release]

\* the operators applied to the drawn objects, and compare_versions to their
\* epoch, version and release
CompareRpms ==
    /\ pc = "rpms"
    /\ pc' = "rpms compared"
    /\ order' = [applied |-> TRUE,
                 lt |-> Less(rpmA, rpmB),
                 eq |-> RpmEq(rpmA, rpmB),
                 gt |-> Greater(rpmA, rpmB),
                 le |-> LessEq(rpmA, rpmB),
                 ge |-> GreaterEq(rpmA, rpmB),
                 lt_ba |-> Less(rpmB, rpmA),
                 gt_ba |-> Greater(rpmB, rpmA),
                 lt_bc |-> Less(rpmB, rpmC),
                 lt_ac |-> Less(rpmA, rpmC),
                 cmp |-> compare_versions(TripleOf(rpmA), TripleOf(rpmB))]
    /\ UNCHANGED <<rpmA, rpmB, rpmC, strVars, evrVars, nevraVars, calcVars,
                   summaryVars>>

\* the text properties of rpmA read
ReadEvr ==
    /\ pc = "rpms"
    /\ pc' = "evr read"
    /\ order' = [applied |-> FALSE, evr |-> evr(rpmA), nevra |-> nevra(rpmA)]
    /\ UNCHANGED <<rpmA, rpmB, rpmC, strVars, evrVars, nevraVars, calcVars,
                   summaryVars>>

NextOrder == CompareRpms \/ ReadEvr

SpecOrder == InitOrder /\ [][NextOrder]_vars

SameNameArch(x, y) == x.name = y.name /\ x.arch = y.arch

Holds(r) == ~r.raised /\ r.value

\* C14: over RPMVersions of one name and arch the operators never raise,
\* exactly one of a < b, a == b, a > b holds, a <= b is true whenever a > b
\* is false, and < is transitive.
OrderingIsTotal ==
    pc = "rpms compared" =>
        /\ SameNameArch(rpmA, rpmB) =>
               /\ ~order.lt.raised /\ ~order.gt.raised
               /\ ~order.le.raised /\ ~order.ge.raised
               /\ Cardinality({k \in {"lt", "eq", "gt"} :
                                  IF k = "eq" THEN order.eq
                                  ELSE order[k].value}) = 1
               /\ ~order.gt.value => order.le.value
        /\ (/\ SameNameArch(rpmA, rpmB) /\ SameNameArch(rpmB, rpmC)
            /\ Holds(order.lt) /\ Holds(order.lt_bc)) => Holds(order.lt_ac)

\* 1.0 against 1.00: neither is less and they are not equal, so each is
\* greater than the other
EqualRankDifferentTextReached ==
    /\ pc = "rpms compared"
    /\ SameNameArch(rpmA, rpmB)
    /\ rpmA.epoch = rpmB.epoch /\ rpmA.release = rpmB.release
    /\ rpmA.version = <<"1", ".", "0">>
    /\ rpmB.version = <<"1", ".", "0", "0">>
    /\ ~order.eq /\ ~order.lt.value
    /\ order.gt.value /\ order.gt_ba.value

\* the decimal text of an epoch below ten
OneDigit(n) == <<"0", "1", "2", "3", "4", "5", "6", "7", "8", "9">>[n + 1]

VersionDashRelease(x) == x.version \o <<"-">> \o x.release

\* C15: RPMVersion.evr is "{epoch}:{version}-{release}" for every epoch, the
\* epoch 0 included, and RPMVersion.nevra always carries the epoch too.
EvrAlwaysShowsEpoch ==
    pc = "evr read" =>
        /\ order.evr = <<OneDigit(rpmA.epoch), ":">> \o VersionDashRelease(rpmA)
        /\ order.nevra = rpmA.name \o <<"-", OneDigit(rpmA.epoch), ":">>
                             \o VersionDashRelease(rpmA) \o <<".">> \o rpmA.arch

\* C15 as stated: evr leaves the epoch out when it is 0
EvrOmitsZeroEpoch ==
    pc = "evr read" =>
        /\ rpmA.epoch > 0 =>
               order.evr = <<OneDigit(rpmA.epoch), ":">> \o VersionDashRelease(rpmA)
        /\ rpmA.epoch = 0 => order.evr = VersionDashRelease(rpmA)
        /\ order.nevra = rpmA.name \o <<"-", OneDigit(rpmA.epoch), ":">>
                             \o VersionDashRelease(rpmA) \o <<".">> \o rpmA.arch

\* the evr of bash-0:1.0-1.x86_64 read: "0:1.0-1"
ZeroEpochEvrReached ==
    /\ pc = "evr read"
    /\ rpmA.epoch = 0
    /\ order.evr = <<"0", ":", "1", ".", "0", "-", "1">>

\* C17: between RPMVersions that differ in name or in arch each of <, <=, >
\* and >= raises (TypeError) instead of giving a truth value.
OrderingAcrossPackagesRaises ==
    (pc = "rpms compared" /\ ~SameNameArch(rpmA, rpmB)) =>
        /\ order.lt.raised /\ order.le.raised
        /\ order.gt.raised /\ order.ge.raised
        /\ order.lt_ba.raised /\ order.gt_ba.raised

\* bash.x86_64 against bash.noarch, the lower epoch on the left
SameNameOtherArchReached ==
    /\ pc = "rpms compared"
    /\ rpmA.name = rpmB.name
    /\ rpmA.arch # rpmB.arch
    /\ rpmA.epoch < rpmB.epoch
    /\ order.lt.raised /\ order.ge.raised
    /\ ~order.eq

(***************************************************************************)
(* format_evr and the evr properties of PackageUpdate                      *)
(***************************************************************************)
\* the text an epoch number, a version and a release are written as
EvrText(e, version, release) ==
    IF e > 0 THEN StrOfInt(e) \o <<":">> \o version \o <<"-">> \o release
    ELSE version \o <<"-">> \o release

\* C16: format_evr takes the epoch as an int or a str, "(none)" and ""
\* meaning 0, and writes "{epoch}:{version}-{release}" when the epoch is above
\* 0 and "{version}-{release}" otherwise; PackageUpdate.installed_evr and
\* available_evr write their fields the same way.
FormatEvrDropsZeroEpoch ==
    pc = "evrs compared" =>
        /\ (evrCmp.formatted /\ NumericEpoch(evrA)) =>
               evrCmp.evr
                   = Returned(EvrText(RefEpoch(evrA), evrA.version, evrA.release))
        /\ NumericEpoch(evrA) =>
               evrCmp.installed_evr
                   = Returned(EvrText(RefEpoch(evrA), VersionOf(evrA), ReleaseOf(evrA)))
        /\ NumericEpoch(evrB) =>
               evrCmp.available_evr
                   = Returned(EvrText(RefEpoch(evrB), VersionOf(evrB), ReleaseOf(evrB)))

\* "(none)" installed against the int 1 available: "1-1" and "1:1.0-1"
EvrOfSentinelAndOneReached ==
    /\ pc = "evrs compared"
    /\ HasAll(evrA) /\ HasAll(evrB)
    /\ evrA.epoch = StrVal(None6)
    /\ evrB.epoch = IntVal(1)
    /\ evrCmp.evr = Returned(<<"1", "-", "1">>)
    /\ evrCmp.installed_evr = evrCmp.evr
    /\ evrCmp.available_evr = Returned(<<"1", ":", "1", ".", "0", "-", "1">>)

(***************************************************************************)
(* compute_updates_for_host on a manifest without packages                 *)
(***************************************************************************)
NoPackagesError == <<"No packages found in manifest">>

\* the profile the manifest's os_release resolves to
ProfileOf(manifest) ==
    get_profile_for_os(Get(Get(manifest, "os_release", <<>>), "id", Unknown),
                       Get(Get(manifest, "os_release", <<>>), "version", Unknown))

\* a call for host_id has just returned or raised
JustComputed(host_id) == result' # result /\ result'.host_id = host_id

\* the call made for a manifest without packages returns the resolved
\* profile, the one error and no update, and touches neither memo nor mirror
ReturnsNoPackages(host_id) ==
    /\ ~result'.raised
    /\ result'.profile = ProfileOf(manifests[host_id])
    /\ result'.errors = <<NoPackagesError>>
    /\ result'.updates = <<>>
    /\ loads' = loads /\ repo_cache' = repo_cache /\ nextId' = nextId

\* C18: when the host's manifest is a non-empty object that lists zero
\* packages, compute_updates_for_host returns a result with the resolved
\* profile, exactly one error "No packages found in manifest" and zero
\* updates, before any channel cache is loaded; a manifest that is the empty
\* object {} is answered like a missing one.
EmptyPackagesReturnsEarly ==
    [][\A host_id \in DOMAIN manifests :
          (/\ JustComputed(host_id)
           /\ Get(manifests[host_id], "packages", <<>>) = <<>>) =>
              IF manifests[host_id] # <<>>
              THEN ReturnsNoPackages(host_id)
              ELSE /\ ~result'.raised
                   /\ result'.profile = Unknown
                   /\ Len(result'.errors) = 1
                   /\ result'.errors # <<NoPackagesError>>
                   /\ loads' = loads]_vars

\* C18 as stated: every existing manifest that lists zero packages
ZeroPackagesReturnsEarly ==
    [][\A host_id \in DOMAIN manifests :
          (/\ JustComputed(host_id)
           /\ Get(manifests[host_id], "packages", <<>>) = <<>>) =>
              ReturnsNoPackages(host_id)]_vars

\* db1's manifest lists no packages; its result came after loads that found
\* a cache, and the memo still holds what they put there
NoPackagesAfterLoadsReached ==
    /\ result.host_id = "db1"
    /\ manifests["db1"] # <<>>
    /\ ~result.raised
    /\ result.errors = <<NoPackagesError>>
    /\ result.profile = Rhel8
    /\ Len(loads) > 1
    /\ \E i \in 1..Len(loads) : loads[i].backed
    /\ repo_cache # <<>>

MaxResults == 3

\* UpdateResult.update_count
update_count(r) == Len(r.updates)

\* sum(r.update_count for r in results)
RECURSIVE SumOfUpdateCounts(_)
SumOfUpdateCounts(rs) ==
    IF rs = <<>> THEN 0 ELSE update_count(Head(rs)) + SumOfUpdateCounts(Tail(rs))

\* sum(1 for r in results if r.update_count > 0)
RECURSIVE CountWithUpdates(_)
CountWithUpdates(rs) ==
    IF rs = <<>> THEN 0
    ELSE (IF update_count(Head(rs)) > 0 THEN 1 ELSE 0) + CountWithUpdates(Tail(rs))

\* a variant that counts every host as one with updates
GenerateSummaryCountsAllHosts(rs) ==
    [total_hosts |-> Len(rs),
     hosts_with_updates |-> Len(rs),
     total_updates |-> SumOfUpdateCounts(rs),
     hosts |-> [i \in 1..Len(rs) |->
                   [host_id |-> rs[i].host_id, profile |-> rs[i].profile,
                    update_count |-> update_count(rs[i])]]]

\* the dict generate_summary returns, without its generated_at time stamp
generate_summary(rs) ==
    [total_hosts |-> Len(rs),
     hosts_with_updates |-> CountWithUpdates(rs),
     total_updates |-> SumOfUpdateCounts(rs),
     hosts |-> [i \in 1..Len(rs) |->
                   [host_id |-> rs[i].host_id, profile |-> rs[i].profile,
                    update_count |-> update_count(rs[i])]]]

\* results as compute_updates_for_host returns them: none, one or two
\* updates, or the one error of a host without manifest
SummaryResults ==
    LET info(epoch, version) ==
            [epoch |-> StrVal(epoch), version |-> version, release |-> R6el9]
        bash == PackageUpdate(Bash, X86_64, Baseos, info(<<"0">>, V518),
                              info(<<"1">>, V518))
        zsh == PackageUpdate(Zsh, X86_64, Appstream, info(<<"1">>, <<"5", ".", "8">>),
                             info(<<"1">>, <<"5", ".", "9">>))
    IN  {UpdateResult(host_id, Rhel9, Rhel, <<"9", ".", "6">>, updates, <<>>) :
            host_id \in {"web1", "db1"},
            updates \in {<<>>, <<bash>>, <<bash, zsh>>}}
        \cup {UpdateResult("ghost", Unknown, Unknown, Unknown, <<>>,
                           << <<"Manifest not found for host: ", "ghost">> >>)}

InitSummary ==
    /\ pc = "results"
    /\ \E n \in 0..MaxResults : results \in [1..n -> SummaryResults]
    /\ summary = NoSummary
    /\ StrIdle /\ EvrIdle /\ NevraIdle /\ CalcIdle /\ OrderIdle

\* summary = calc.generate_summary(results)
Summarize ==
    /\ pc = "results"
    /\ pc' = "summarized"
    /\ summary' = [made |-> TRUE, value |-> generate_summary(results)]
    /\ UNCHANGED <<results, strVars, evrVars, nevraVars, calcVars, orderVars>>

SpecSummary == InitSummary /\ [][Summarize]_vars

\* C20: generate_summary reports total_hosts = len(results),
\* hosts_with_updates = the number of results with update_count > 0,
\* total_updates = the sum of the update counts, and one (host_id, profile,
\* update_count) entry per result in input order; the results are left as
\* they were.
SummaryCountsResults ==
    [][summary' # summary =>
          /\ results' = results
          /\ summary'.value.total_hosts = Len(results)
          /\ summary'.value.hosts_with_updates
                 = Cardinality({i \in 1..Len(results) : results[i].updates # <<>>})
          /\ summary'.value.total_updates
                 = Cardinality(UNION {{<<i, k>> : k \in 1..Len(results[i].updates)} :
                                          i \in 1..Len(results)})
          /\ Len(summary'.value.hosts) = Len(results)
          /\ \A i \in 1..Len(results) :
                 summary'.value.hosts[i]
                     = [host_id |-> results[i].host_id,
                        profile |-> results[i].profile,
                        update_count |-> Len(results[i].updates)]
      ]_vars

\* a host with two updates, one with none and one without manifest
MixedFleetSummarizedReached ==
    /\ pc = "summarized"
    /\ Len(results) = 3
    /\ Len(results[1].updates) = 2
    /\ results[2].updates = <<>> /\ results[2].errors = <<>>
    /\ results[3].host_id = "ghost"
    /\ summary.value.total_hosts = 3
    /\ summary.value.hosts_with_updates = 1
    /\ summary.value.total_updates = 2

(***************************************************************************)
(* get_profile_for_os, through compute_updates_for_host                    *)
(***************************************************************************)
Fedora == <<"f", "e", "d", "o", "r", "a">>

OsIds == {Rhel, Centos, <<"r", "o", "c", "k", "y">>,
          <<"a", "l", "m", "a", "l", "i", "n", "u", "x">>, Fedora, <<>>}

OsVersions == {<<"9", ".", "6">>, <<"8", ".", "1", "0">>, <<"9">>,
               <<"1", "0", ".", "1", ".", "2">>, <<"8">>, <<"7", ".", "9">>}

\* os_release objects, either key of which may be missing
OsReleases ==
    [id : OsIds, version : OsVersions] \cup [id : OsIds]
        \cup [version : OsVersions] \cup {<<>>}

\* one host whose manifest names any os, with an old bash or no package; the
\* rhel9 baseos cache holds a newer bash
InitProfile ==
    /\ pc = "calculator"
    /\ \E os_release \in OsReleases,
          pkgs \in {<<>>, <<[name |-> Bash, arch |-> X86_64,
                             epoch |-> StrVal(<<"0">>), version |-> V518,
                             release |-> R6el9]>>} :
           manifests = ("web1" :> [os_release |-> os_release, packages |-> pkgs])
    /\ mirror = (<<Rhel9, X86_64, Baseos>> :>
                     (BashKey :> [epoch |-> StrVal(<<"0">>), version |-> V518,
                                  release |-> R9el9]))
    /\ processed = ListingOf(manifests)
    /\ FreshCalculator
    /\ StrIdle /\ EvrIdle /\ NevraIdle /\ OrderIdle /\ SummaryIdle

SpecProfile == InitProfile /\ [][FirstCompute]_vars

\* the text of s before its first ".", all of s when it has none
UpToFirstDot(s) ==
    LET dots == {i \in 1..Len(s) : s[i] = "."}
    IN  IF dots = {} THEN s
        ELSE SubSeq(s, 1, (CHOOSE i \in dots : \A j \in dots : i <= j) - 1)

\* C21: get_profile_for_os returns "rhel" followed by what precedes the
\* first "." of os_version (the major version), whatever os_id is: rhel,
\* centos, rocky, almalinux or any other value.
ProfileIgnoresOsId ==
    result # NoResult =>
        LET os_release == manifests["web1"].os_release
        IN  /\ ~result.raised
            /\ result.os_id = Get(os_release, "id", Unknown)
            /\ result.profile
                   = <<"r", "h", "e", "l">>
                         \o UpToFirstDot(Get(os_release, "version", Unknown))

\* a fedora 10.1.2 host is computed against profile rhel10
FedoraResolvedReached ==
    /\ result # NoResult
    /\ result.os_id = Fedora
    /\ result.os_version = <<"1", "0", ".", "1", ".", "2">>
    /\ result.profile = <<"r", "h", "e", "l", "1", "0">>
    /\ Len(loads) = 2

(***************************************************************************)
(* The memo while the mirror changes under the calculator                  *)
(***************************************************************************)
\* what a rhel9 cache file may be written with: two listings of bash
MemoListings ==
    {BashKey :> [epoch |-> StrVal(<<"0">>), version |-> V518, release |-> release] :
        release \in {R6el9, R9el9}}

MemoPaths == {<<Rhel9, X86_64, Baseos>>, <<Rhel9, X86_64, Appstream>>}

\* web1 with an old bash; each rhel9 cache file missing or holding a listing
InitMemo ==
    /\ pc = "calculator"
    /\ manifests = ("web1" :> [os_release |-> [id |-> Rhel,
                                               version |-> <<"9", ".", "6">>],
                               packages |-> <<[name |-> Bash, arch |-> X86_64,
                                               epoch |-> StrVal(<<"0">>),
                                               version |-> V518,
                                               release |-> <<"1">>]>>])
    /\ mirror \in Mirrors(MemoPaths, MemoListings)
    /\ processed = ListingOf(manifests)
    /\ FreshCalculator
    /\ StrIdle /\ EvrIdle /\ NevraIdle /\ OrderIdle /\ SummaryIdle

\* the mirror is synchronised between two calls: a .package_cache.json
\* appears or is rewritten
CacheFileWritten(path, listing) ==
    /\ pc = "calculator"
    /\ Len(loads) < MaxLoads
    /\ (path \in DOMAIN mirror => mirror[path] # listing)
    /\ mirror' = [p \in DOMAIN mirror \cup {path} |->
                     IF p = path THEN listing ELSE mirror[p]]
    /\ UNCHANGED <<pc, threads, manifests, repo_cache, nextId, loads, result, processed, batch,
                   strVars, evrVars, nevraVars, orderVars, summaryVars>>

\* or a .package_cache.json is removed
CacheFileRemoved(path) ==
    /\ pc = "calculator"
    /\ Len(loads) < MaxLoads
    /\ path \in DOMAIN mirror
    /\ mirror' = [p \in DOMAIN mirror \ {path} |-> mirror[p]]
    /\ UNCHANGED <<pc, threads, manifests, repo_cache, nextId, loads, result, processed, batch,
                   strVars, evrVars, nevraVars, orderVars, summaryVars>>

NextMemo ==
    \/ \E channel \in Channels : LoadCall(Rhel9, X86_64, channel)
    \/ ComputeCall("web1")
    \/ \E path \in MemoPaths, listing \in MemoListings : CacheFileWritten(path, listing)
    \/ \E path \in MemoPaths : CacheFileRemoved(path)

SpecMemo == InitMemo /\ [][NextMemo]_vars

\* every memo entry is still there, holding the same object
MemoKept ==
    \A key \in DOMAIN repo_cache :
        key \in DOMAIN repo_cache' /\ repo_cache'[key] = repo_cache[key]

\* C22: within one calculator, once a load of a (profile, arch, channel)
\* triple has found the cache file, the file is not read again: every later
\* load of the triple returns the very object that load returned, even if
\* the file was rewritten or removed in between, and a memoized mapping is
\* never replaced or removed.  A load that found no file memoizes nothing, so
\* a file that appears afterwards is read by the next load.
MemoizedOnceFound ==
    [][/\ MemoKept
       /\ \A i, j \in 1..Len(loads') :
              (i < j /\ loads'[i].key = loads'[j].key /\ loads'[i].backed)
                  => loads'[j].obj = loads'[i].obj
       /\ DOMAIN repo_cache'
              = {loads'[i].key : i \in {k \in 1..Len(loads') : loads'[k].backed}}]_vars

\* C22 as stated: every later load returns what the first load of the triple
\* returned, whatever happened to the file in between
FirstLoadAnsweredForEver ==
    [][/\ MemoKept
       /\ \A i, j \in 1..Len(loads') :
              (i < j /\ loads'[i].key = loads'[j].key)
                  => loads'[j].obj.pkgs = loads'[i].obj.pkgs]_vars

\* a file is read, rewritten, and the triple loaded again: the old listing
\* is returned
StaleListingReturnedReached ==
    \E i, j \in 1..Len(loads) :
        /\ i < j
        /\ loads[i].key = loads[j].key
        /\ loads[i].backed
        /\ loads[j].obj = loads[i].obj
        /\ loads[j].key = CacheKey(Rhel9, X86_64, Baseos)
        /\ <<Rhel9, X86_64, Baseos>> \in DOMAIN mirror
        /\ mirror[<<Rhel9, X86_64, Baseos>>] # loads[j].obj.pkgs

(***************************************************************************)
(* load_repo_packages called from several threads of one calculator        *)
(***************************************************************************)
Threads == {"t1", "t2"}

NotCalling == [at |-> "idle", channel |-> <<>>, packages |-> <<>>, returned |-> <<>>]

\* a calculator just constructed and shared by threads that have not called
\* yet; each rhel9 cache file missing or holding a listing
InitThreads ==
    /\ pc = "calculator"
    /\ manifests = <<>>
    /\ mirror \in Mirrors(MemoPaths, MemoListings)
    /\ processed = ListingOf(manifests)
    /\ repo_cache = <<>> /\ nextId = 0 /\ loads = <<>> /\ result = NoResult
    /\ batch = NoBatch
    /\ threads = [t \in Threads |-> NotCalling]
    /\ StrIdle /\ EvrIdle /\ NevraIdle /\ OrderIdle /\ SummaryIdle

KeyOf(t) == CacheKey(Rhel9, X86_64, threads[t].channel)

PathOf(t) == <<Rhel9, X86_64, threads[t].channel>>

\* the call returns `obj` to thread t
Return(t, obj) ==
    /\ threads' = [threads EXCEPT ![t].at = "returned", ![t].returned = obj]
    /\ loads' = Append(loads, [key |-> KeyOf(t), obj |-> obj,
                               backed |-> PathOf(t) \in DOMAIN mirror,
                               warned |-> FALSE, raised |-> FALSE])

\* thread t enters load_repo_packages and makes cache_key
ThreadCalls(t, channel) ==
    /\ pc = "calculator"
    /\ threads[t].at = "idle"
    /\ threads' = [threads EXCEPT ![t].at = "lookup", ![t].channel = channel]
    /\ UNCHANGED <<pc, manifests, mirror, repo_cache, nextId, loads, result,
                   processed, batch, strVars, evrVars, nevraVars, orderVars,
                   summaryVars>>

\* `if cache_key in self._repo_cache: return self._repo_cache[cache_key]`
ThreadLooksUp(t) ==
    /\ pc = "calculator"
    /\ threads[t].at = "lookup"
    /\ IF KeyOf(t) \in DOMAIN repo_cache
       THEN Return(t, repo_cache[KeyOf(t)])
       ELSE /\ threads' = [threads EXCEPT ![t].at = "exists"]
            /\ UNCHANGED loads
    /\ UNCHANGED <<pc, manifests, mirror, repo_cache, nextId, result, processed,
                   batch, strVars, evrVars, nevraVars, orderVars, summaryVars>>

\* `if cache_file.exists()`, and without the file `return {}`
ThreadChecksFile(t) ==
    /\ pc = "calculator"
    /\ threads[t].at = "exists"
    /\ IF PathOf(t) \in DOMAIN mirror
       THEN /\ threads' = [threads EXCEPT ![t].at = "load"]
            /\ UNCHANGED <<loads, nextId>>
       ELSE /\ Return(t, [id |-> nextId, pkgs |-> <<>>])
            /\ nextId' = nextId + 1
    /\ UNCHANGED <<pc, manifests, mirror, repo_cache, result, processed, batch,
                   strVars, evrVars, nevraVars, orderVars, summaryVars>>

\* `packages = json.load(f)`
ThreadReadsFile(t) ==
    /\ pc = "calculator"
    /\ threads[t].at = "load"
    /\ threads' = [threads EXCEPT ![t].at = "store",
                                  ![t].packages = [id |-> nextId,
                                                   pkgs |-> mirror[PathOf(t)]]]
    /\ nextId' = nextId + 1
    /\ UNCHANGED <<pc, manifests, mirror, repo_cache, loads, result, processed,
                   batch, strVars, evrVars, nevraVars, orderVars, summaryVars>>

\* `self._repo_cache[cache_key] = packages; return packages`
ThreadStores(t) ==
    /\ pc = "calculator"
    /\ threads[t].at = "store"
    /\ repo_cache' = [k \in DOMAIN repo_cache \cup {KeyOf(t)} |->
                         IF k = KeyOf(t) THEN threads[t].packages ELSE repo_cache[k]]
    /\ Return(t, threads[t].packages)
    /\ UNCHANGED <<pc, manifests, mirror, nextId, result, processed, batch,
                   strVars, evrVars, nevraVars, orderVars, summaryVars>>

NextThreads ==
    \E t \in Threads :
        \/ \E channel \in Channels : ThreadCalls(t, channel)
        \/ ThreadLooksUp(t)
        \/ ThreadChecksFile(t)
        \/ ThreadReadsFile(t)
        \/ ThreadStores(t)

SpecThreads == InitThreads /\ [][NextThreads]_vars

\* C23: when load_repo_packages calls of several threads for one cache key
\* interleave, the key is populated at most once (a memo entry is never
\* stored over) and every caller whose call found the cache file observes
\* the same mapping object.
PopulatedOnceWhenInterleaved ==
    [][/\ MemoKept
       /\ \A t, u \in Threads :
              (/\ threads'[t].at = "returned" /\ threads'[u].at = "returned"
               /\ threads'[t].channel = threads'[u].channel
               /\ <<Rhel9, X86_64, threads'[t].channel>> \in DOMAIN mirror)
                  => threads'[t].returned.id = threads'[u].returned.id]_vars

(***************************************************************************)
(* The order of the updates in a result                                    *)
(***************************************************************************)
\* the update u reports the installed entry pkg
ReportsEntry(u, pkg) ==
    /\ u.name = Get(pkg, "name", <<>>)
    /\ u.arch = Get(pkg, "arch", <<>>)
    /\ u.installed_epoch = EpochText(pkg)
    /\ u.installed_version = Get(pkg, "version", <<"0">>)
    /\ u.installed_release = Get(pkg, "release", <<"0">>)

\* the updates us follow the order of the entries pkgs: they report entries
\* at strictly increasing positions
InEntryOrder(us, pkgs) ==
    \E at \in [1..Len(us) -> 1..Len(pkgs)] :
        /\ \A i, j \in 1..Len(us) : i < j => at[i] < at[j]
        /\ \A i \in 1..Len(us) : ReportsEntry(us[i], pkgs[at[i]])

OfChannel(us, channel) == SelectSeq(us, LAMBDA u : u.channel = channel)

\* C24: in every UpdateResult the updates found in baseos precede those
\* found in appstream, the updates of one channel follow the order of the
\* installed entries of the manifest, and no update names another channel.
UpdatesInChannelThenEntryOrder ==
    HostReturned =>
        /\ \A i \in 1..Len(result.updates) :
               result.updates[i].channel \in {Baseos, Appstream}
        /\ \A i, j \in 1..Len(result.updates) :
               (i < j /\ result.updates[i].channel = Appstream)
                   => result.updates[j].channel = Appstream
        /\ \A channel \in {Baseos, Appstream} :
               InEntryOrder(OfChannel(result.updates, channel),
                            manifests[result.host_id].packages)

\* the manifest lists the beta bash before the old bash, and both caches
\* hold a newer bash: four updates, baseos first, each pair in manifest order
FourUpdatesInOrderReached ==
    /\ HostReturned
    /\ Len(result.updates) = 4
    /\ result.updates[1].channel = Baseos
    /\ result.updates[1].installed_version = <<"b", "e", "t", "a">>
    /\ result.updates[2].channel = Baseos
    /\ result.updates[2].installed_version = V518
    /\ result.updates[3].channel = Appstream
    /\ result.updates[3].installed_version = <<"b", "e", "t", "a">>
    /\ result.updates[4].channel = Appstream

(***************************************************************************)
(* What compute_updates_for_host leaves alone                              *)
(***************************************************************************)
\* the memo keys the step added
NewMemoKeys == DOMAIN repo_cache' \ DOMAIN repo_cache

\* C25: compute_updates_for_host writes nothing: manifests, the processed
\* directory, the mirror's cache files, every mapping already memoized and
\* the results of earlier calls are as before; it only adds memo entries,
\* and only for baseos and appstream of the profile of the host computed.
ComputeOnlyAddsMemoEntries ==
    [][/\ manifests' = manifests
       /\ mirror' = mirror
       /\ processed' = processed
       /\ MemoKept
       /\ Len(batch'.yielded) >= Len(batch.yielded)
       /\ SubSeq(batch'.yielded, 1, Len(batch.yielded)) = batch.yielded
       /\ NewMemoKeys # {} =>
              /\ result' # result
              /\ result'.host_id \in DOMAIN manifests
              /\ NewMemoKeys \subseteq
                     {CacheKey(ProfileOf(manifests[result'.host_id]), X86_64, channel) :
                         channel \in {Baseos, Appstream}}]_vars

\* the second host of a batch was computed on a memo the first one filled:
\* both results are there and the memo holds what the first call loaded
SecondHostOnFilledMemoReached ==
    /\ batch.state = "running"
    /\ Len(batch.yielded) = 2
    /\ Len(batch.yielded[1].updates) > 0
    /\ Len(loads) = 4
    /\ loads[1].backed
    /\ loads[3].obj = loads[1].obj
    /\ DOMAIN repo_cache = {loads[1].key, loads[2].key}

(***************************************************************************)
(* RPMVersion construction                                                 *)
(***************************************************************************)
\* epochs a caller may pass: those of EpochPool, a negative int and the text
\* of one
BuildEpochs == EpochPool \cup {IntVal(0 - 1), StrVal(<<"-", "1">>)}

InitBuild ==
    /\ pc = "args"
    /\ rpm \in [name : NamePool, epoch : BuildEpochs, version : NevraVersionPool,
                release : NevraReleasePool, arch : ArchPool]
    /\ built = NoBuilt /\ text = <<>> /\ parsed = NoParse
    /\ StrIdle /\ EvrIdle /\ CalcIdle /\ OrderIdle /\ SummaryIdle

\* built = RPMVersion(name, epoch, version, release, arch)
Construct ==
    /\ pc = "args"
    /\ pc' = "built"
    /\ built' = RPMVersion(rpm.name, rpm.epoch, rpm.version, rpm.release, rpm.arch)
    /\ UNCHANGED <<rpm, text, parsed, strVars, evrVars, calcVars, orderVars,
                   summaryVars>>

SpecBuild == InitBuild /\ [][Construct]_vars

\* the text s is an unsigned decimal number
Unsigned(s) == s # <<>> /\ \A i \in 1..Len(s) : s[i] \in Range(DigitChars)

\* C26: after construction the epoch of an RPMVersion is an integer: the int
\* passed as it is, 0 for the texts "(none)", "" and "0", the value of a text
\* of digits, so a non-negative integer whenever a non-negative int, a
\* sentinel or a text of digits was passed; a negative int, or the text of
\* one, stays negative, and any other text makes the construction raise.
EpochIsTheIntegerPassed ==
    pc = "built" =>
        IF ~rpm.epoch.isStr
        THEN built = Returned([rpm EXCEPT !.epoch = rpm.epoch.int])
        ELSE IF rpm.epoch.str \in {None6, <<>>}
        THEN ~built.raised /\ built.value.epoch = 0
        ELSE IF Unsigned(rpm.epoch.str)
        THEN /\ ~built.raised
             /\ built.value.epoch = RefNumber(rpm.epoch.str, 0)
             /\ built.value.epoch >= 0
        ELSE IF Head(rpm.epoch.str) = "-" /\ Unsigned(Tail(rpm.epoch.str))
        THEN /\ ~built.raised
             /\ built.value.epoch = 0 - RefNumber(Tail(rpm.epoch.str), 0)
        ELSE built.raised

\* C26 as stated: whatever was passed, the epoch of the object constructed is
\* a non-negative integer
EpochIsNeverNegative ==
    (pc = "built" /\ ~built.raised) =>
        /\ built.value.epoch \in Nat
        /\ (rpm.epoch.isStr /\ rpm.epoch.str \in {None6, <<>>})
               => built.value.epoch = 0

\* RPMVersion("bash", "-1", ...) has epoch -1
NegativeEpochBuiltReached ==
    /\ pc = "built"
    /\ rpm.epoch = StrVal(<<"-", "1">>)
    /\ ~built.raised
    /\ built.value.epoch = 0 - 1

(***************************************************************************)
(* RPMVersion's operators against compare_versions                         *)
(***************************************************************************)
\* C27: for RPMVersions a and b of one name and arch, a < b holds exactly
\* when compare_versions on their epoch, version and release returns -1, and
\* a > b exactly when it returns 1.
OperatorsAgreeWithCompareVersions ==
    (pc = "rpms compared" /\ SameNameArch(rpmA, rpmB)) =>
        /\ ~order.cmp.raised
        /\ Holds(order.lt) <=> order.cmp.value = 0 - 1
        /\ Holds(order.gt) <=> order.cmp.value = 1

====
